---- MODULE Spec2Model ----
(***************************************************************************)
(* Model of the links route of bents-v3 (src/app/api/links/route.ts): the  *)
(* POST handler that classifies a question, rewrites it, embeds it,        *)
(* searches the vector store, asks the model for video tags, extracts the  *)
(* video references and looks up related products.                         *)
(*                                                                         *)
(* Strings are sequences of one-character strings, so that the regular     *)
(* expression, trim, case folding, split, number parsing and number        *)
(* formatting are computed character by character as the code does.        *)
(***************************************************************************)
EXTENDS Integers, Sequences, FiniteSets, TLC

VARIABLES
    xTokens,        \* extraction harness: the tags and filler the text is made of
    content,        \* extraction harness: the text handed to processVideoReferences
    xRuns,          \* extraction harness: the results of the runs made so far
    productsTable,  \* the products table of the store: id -> tags column
    store,          \* the pool: connections taken, queries issued, connections held
    mTitles,        \* matcher harness: the videoTitles argument
    mResult,        \* matcher harness: what getRelatedProducts returned
    pc,             \* POST: the call the handler is waiting on, or done / failed
    request,        \* POST: the body of the request
    messages,       \* POST: messages (the conversation history)
    lastUserMessage,\* POST: lastUserMessage
    classifierContent, \* what the model answered to the relevance prompt
    relevanceResult,\* POST: relevanceResult
    rewrittenQuery, \* POST: rewrittenQuery
    similarDocs,    \* POST: similarDocs
    videoDict,      \* POST: videoDict
    response,       \* POST: the Response returned to the caller
    calls,          \* how often each collaborator was called for this request
    faults,         \* the collaborator calls that failed for this request
    prompts,        \* the chat history each model call of this request carried
    videoResponse,  \* POST: what the video completion sent back besides its text
    docsTable,      \* the bents table of the store, in storage order: id, vector
    sQuery,         \* search harness: the queryEmbedding argument
    sTopK,          \* search harness: the topK argument
    sResult,        \* search harness: what searchNeonDb resolved to
    invocations,    \* two calls of POST in progress: the locals of each
    sessions,       \* useSession: sessions (id and conversations of each)
    currentSessionId, \* useSession: currentSessionId (0 for none)
    userId,         \* chat page: whether useAuth gave a userId
    isLoading,      \* chat page: isLoading of useChat
    searchQuery,    \* chat page: searchQuery
    currentConversation,  \* chat page: currentConversation
    showInitialQuestions, \* chat page: showInitialQuestions
    currentQuestionRef,   \* chat page: currentQuestionRef.current
    timers,         \* chat page: the delayed submits of handleQuestionSelect
    exchanges,      \* chat page: the questions appended to the chat so far
    recorded,       \* chat page: the conversations onFinish recorded, in order
    sessionData,    \* the session_data row /api/set-session keeps for the user
    sessionsVersion,\* session hook: which value of sessions is the current one
    timeouts,       \* session hook: the setTimeout calls not yet fired or cleared
    clock,          \* session hook: the time in milliseconds
    saves           \* session hook: the saveSessions calls made so far

xvars == <<xTokens, content, xRuns>>
mvars == <<productsTable, store, mTitles, mResult>>
pvars == <<pc, request, messages, lastUserMessage, classifierContent,
           relevanceResult, rewrittenQuery, similarDocs, videoDict, response,
           calls, faults, prompts, videoResponse>>
svars == <<docsTable, sQuery, sTopK, sResult>>
qvars == <<invocations>>
gvars == <<currentSessionId, userId, isLoading, searchQuery,
           currentConversation, showInitialQuestions, currentQuestionRef, timers, exchanges,
           recorded, sessionData>>
hvars == <<sessionsVersion, timeouts, clock, saves>>
cvars == <<qvars, sessions, gvars, hvars>>
offPage == <<xvars, mvars, pvars, svars, qvars, hvars>>

\* the variables of the two-requests, chat-page and session-hook
\* specifications while another specification runs
QIdle == invocations = <<>>

GIdle ==
    /\ sessions = <<>>
    /\ currentSessionId = 0
    /\ userId = FALSE
    /\ isLoading = FALSE
    /\ searchQuery = <<>>
    /\ currentConversation = <<>>
    /\ showInitialQuestions = FALSE
    /\ currentQuestionRef = <<>>
    /\ timers = {}
    /\ exchanges = <<>>
    /\ recorded = <<>>
    /\ sessionData = <<>>

HIdle ==
    /\ sessionsVersion = 0
    /\ timeouts = {}
    /\ clock = 0
    /\ saves = <<>>

(***************************************************************************)
(* Bounds of the model.                                                    *)
(***************************************************************************)
MaxFragments == 3   \* fragments (tag groups, filler) concatenated into one text
MaxRuns == 2        \* runs of the extraction on the same text
MaxProducts == 2    \* rows of the products table
MaxTitles == 2      \* video titles handed to the product matcher
MaxMessages == 1    \* messages in the body of a request
MaxGeneratedFragments == 1  \* fragments in the text of the video completion
MaxDocs == 3        \* rows of the bents table
MaxTopK == 2        \* the topK handed to searchNeonDb
MaxQuestions == 2   \* questions appended to the chat of the page
MaxSessions == 2    \* sessions the page creates
MaxTimers == 1      \* delayed submits of suggested questions pending at once
MaxChanges == 3     \* changes of the sessions of the session hook
MaxClock == 2500    \* milliseconds the session hook is followed for

(***************************************************************************)
(* Characters and strings.                                                 *)
(***************************************************************************)
DigitChars == <<"0","1","2","3","4","5","6","7","8","9">>

IsDigit(c) == \E k \in 1..10 : DigitChars[k] = c

DigitVal(c) == (CHOOSE k \in 1..10 : DigitChars[k] = c) - 1

\* String.prototype.includes for a one-character needle
Includes(s, c) == \E k \in 1..Len(s) : s[k] = c

\* s.startsWith(lit, i - 1): the literal lit occurs in s at (1-based) index i
LitAt(s, i, lit) ==
    /\ i + Len(lit) - 1 <= Len(s)
    /\ \A k \in 1..Len(lit) : s[i + k - 1] = lit[k]

\* the part of s from index i up to the next occurrence of c (or the end)
UpTo(s, i, c) ==
    LET stop == CHOOSE k \in i..(Len(s) + 1) :
                    /\ k > Len(s) \/ s[k] = c
                    /\ \A j \in i..(k - 1) : s[j] # c
    IN  SubSeq(s, i, stop - 1)

\* String.prototype.split for a one-character separator
RECURSIVE Split(_, _)
Split(s, c) ==
    LET head == UpTo(s, 1, c)
    IN  IF Len(head) = Len(s) THEN <<s>>
        ELSE <<head>> \o Split(SubSeq(s, Len(head) + 2, Len(s)), c)

\* unary plus on a string of decimal digits ("05" gives 5, "" gives 0)
RECURSIVE ToNumber(_)
ToNumber(s) ==
    IF s = <<>> THEN 0
    ELSE 10 * ToNumber(SubSeq(s, 1, Len(s) - 1)) + DigitVal(s[Len(s)])

\* Number.prototype.toString and template interpolation of a natural number
RECURSIVE toString(_)
toString(n) ==
    IF n < 10 THEN <<DigitChars[n + 1]>>
    ELSE toString(n \div 10) \o <<DigitChars[(n % 10) + 1]>>

UpperLetters ==
    <<"A","B","C","D","E","F","G","H","I","J","K","L","M",
      "N","O","P","Q","R","S","T","U","V","W","X","Y","Z">>
LowerLetters ==
    <<"a","b","c","d","e","f","g","h","i","j","k","l","m",
      "n","o","p","q","r","s","t","u","v","w","x","y","z">>

\* the case mappings of the letters, as lookup tables
LowerOf ==
    [c \in {UpperLetters[k] : k \in 1..26} |->
        LowerLetters[CHOOSE k \in 1..26 : UpperLetters[k] = c]]
UpperOf ==
    [c \in {LowerLetters[k] : k \in 1..26} |->
        UpperLetters[CHOOSE k \in 1..26 : LowerLetters[k] = c]]

LowerChar(c) == IF c \in DOMAIN LowerOf THEN LowerOf[c] ELSE c

UpperChar(c) == IF c \in DOMAIN UpperOf THEN UpperOf[c] ELSE c

\* String.prototype.toLowerCase, String.prototype.toUpperCase
toLowerCase(s) == [k \in 1..Len(s) |-> LowerChar(s[k])]
toUpperCase(s) == [k \in 1..Len(s) |-> UpperChar(s[k])]

WhiteSpace == {" ", "\n", "\t"}

\* String.prototype.trim
trim(s) ==
    LET keep == {k \in 1..Len(s) : s[k] \notin WhiteSpace}
    IN  IF keep = {} THEN <<>>
        ELSE SubSeq(s, CHOOSE k \in keep : \A j \in keep : k <= j,
                       CHOOSE k \in keep : \A j \in keep : j <= k)

(***************************************************************************)
(* processVideoReferences: the regular expression videoPattern             *)
(*   \{\{timestamp:(\d{2}:\d{2})\}\}\{\{title:([^}]+)\}\}\{\{url:([^}]+)\}\}*)
(***************************************************************************)
TimestampOpen == <<"{","{","t","i","m","e","s","t","a","m","p",":">>
TitleOpen == <<"}","}","{","{","t","i","t","l","e",":">>
UrlOpen == <<"}","}","{","{","u","r","l",":">>
TagClose == <<"}","}">>

NoMatch == [found |-> FALSE]

\* (\d{2}:\d{2}) at index i
TimestampGroupAt(s, i) ==
    /\ i + 4 <= Len(s)
    /\ IsDigit(s[i]) /\ IsDigit(s[i + 1])
    /\ s[i + 2] = ":"
    /\ IsDigit(s[i + 3]) /\ IsDigit(s[i + 4])

\* ([^}]+) at index i: greedy, and every literal that follows a group starts
\* with "}", so the group is the whole run of characters other than "}"
BraceFreeGroupAt(s, i) == UpTo(s, i, "}")

\* MatchAt with \s* allowed before the title tag (a looser pattern)
MatchAtLoose(s, i) ==
    IF ~(LitAt(s, i, TimestampOpen) /\ TimestampGroupAt(s, i + 12)
         /\ LitAt(s, i + 17, TagClose)) THEN NoMatch
    ELSE
      LET timestamp == SubSeq(s, i + 12, i + 16)
          gap == CHOOSE k \in (i + 19)..(Len(s) + 1) :
                     /\ k > Len(s) \/ s[k] \notin {" ", "\n"}
                     /\ \A j \in (i + 19)..(k - 1) : s[j] \in {" ", "\n"}
          iTitle == gap + 8
      IN  IF ~LitAt(s, gap, <<"{","{","t","i","t","l","e",":">>) THEN NoMatch
          ELSE
            LET title == UpTo(s, iTitle, "}")
                iUrl == iTitle + Len(title) + Len(UrlOpen)
            IN  IF title = <<>> \/ ~LitAt(s, iTitle + Len(title), UrlOpen)
                THEN NoMatch
                ELSE
                  LET url == UpTo(s, iUrl, "}")
                  IN  IF url = <<>> \/ ~LitAt(s, iUrl + Len(url), TagClose)
                      THEN NoMatch
                      ELSE [found |-> TRUE, timestamp |-> timestamp,
                            title |-> title, url |-> url,
                            next |-> iUrl + Len(url) + Len(TagClose)]

\* one attempt of videoPattern anchored at index i
MatchAt(s, i) ==
    IF ~(LitAt(s, i, TimestampOpen) /\ TimestampGroupAt(s, i + 12)) THEN NoMatch
    ELSE
      LET timestamp == SubSeq(s, i + 12, i + 16)
          iTitle == i + 17 + Len(TitleOpen)
      IN  IF ~LitAt(s, i + 17, TitleOpen) THEN NoMatch
          ELSE
            LET title == BraceFreeGroupAt(s, iTitle)
                iUrl == iTitle + Len(title) + Len(UrlOpen)
            IN  IF title = <<>> \/ ~LitAt(s, iTitle + Len(title), UrlOpen)
                THEN NoMatch
                ELSE
                  LET url == BraceFreeGroupAt(s, iUrl)
                  IN  IF url = <<>> \/ ~LitAt(s, iUrl + Len(url), TagClose)
                      THEN NoMatch
                      ELSE [found |-> TRUE, timestamp |-> timestamp,
                            title |-> title, url |-> url,
                            next |-> iUrl + Len(url) + Len(TagClose)]

\* content.matchAll(videoPattern): the leftmost match at or after index i,
\* then the search resumes at the end of that match
RECURSIVE MatchAll(_, _)
MatchAll(s, i) ==
    LET starts == {j \in i..Len(s) : MatchAt(s, j).found}
    IN  IF starts = {} THEN <<>>
        ELSE LET first == CHOOSE j \in starts : \A k \in starts : j <= k
                 m == MatchAt(s, first)
             IN  <<m>> \o MatchAll(s, m.next)

\* timestamp.split(':').reduce((acc, time) => (60 * acc) + +time, 0)
RECURSIVE ReduceSeconds(_, _)
ReduceSeconds(parts, acc) ==
    IF parts = <<>> THEN acc
    ELSE ReduceSeconds(Tail(parts), 60 * acc + ToNumber(Head(parts)))

\* Separator that ignores an existing query string
SeparatorAlwaysQuestion(url) == <<"?">>

\* const separator = url.includes('?') ? '&' : '?'
Separator(url) == IF Includes(url, "?") THEN <<"&">> ELSE <<"?">>

\* EntryKey counting from one
EntryKeyOneBased(i) == toString(i + 1)

\* the key of the i-th match (0-based) in videoDict
EntryKey(i) == toString(i)

\* the value built for one match
EntryValue(match) ==
    LET seconds == ReduceSeconds(Split(match.timestamp, ":"), 0)
    IN  [urls |-> <<match.url \o Separator(match.url) \o <<"t","=">>
                      \o toString(seconds)>>,
         timestamp |-> match.timestamp,
         video_title |-> match.title,
         description |-> <<>>]

\* Object.fromEntries(matches.map((match, i) => [i.toString(), {...}]))
FromEntries(matches) ==
    LET keys == {EntryKey(i - 1) : i \in 1..Len(matches)}
    IN  [k \in keys |->
            EntryValue(matches[CHOOSE i \in 1..Len(matches) :
                                 EntryKey(i - 1) = k
                                 /\ \A j \in 1..Len(matches) :
                                       EntryKey(j - 1) = k => j <= i])]

processVideoReferences(text) ==
    [processedAnswer |-> text, videoDict |-> FromEntries(MatchAll(text, 1))]

\* Object.values(videoDict): integer-like keys are visited in ascending order
RECURSIVE ValuesFrom(_, _)
ValuesFrom(dict, n) ==
    IF n > Cardinality(DOMAIN dict) THEN <<>>
    ELSE IF toString(n) \in DOMAIN dict
         THEN <<dict[toString(n)]>> \o ValuesFrom(dict, n + 1)
         ELSE ValuesFrom(dict, n + 1)

ObjectValues(dict) == ValuesFrom(dict, 0)

(***************************************************************************)
(* Texts the generator can produce: tags and filler, concatenated.         *)
(***************************************************************************)
TimestampTag(v, secs) == [kind |-> "timestamp", val |-> v, secs |-> secs]
TitleTag(v) == [kind |-> "title", val |-> v, secs |-> 0]
UrlTag(v) == [kind |-> "url", val |-> v, secs |-> 0]
Filler(v) == [kind |-> "filler", val |-> v, secs |-> 0]

Ts0530 == TimestampTag(<<"0","5",":","3","0">>, 330)
Ts0130 == TimestampTag(<<"0","1",":","3","0">>, 90)
Ts010203 == TimestampTag(<<"0","1",":","0","2",":","0","3">>, 3723)
TitleX == TitleTag(<<"X">>)
TitleTableSaw == TitleTag(<<"T","a","b","l","e"," ","S","a","w">>)
UrlBare == UrlTag(<<"h","t","t","p","s",":","/","/","x","/","y">>)
UrlQuery ==
    UrlTag(<<"h","t","t","p","s",":","/","/","x","/","y","?","v","=","a","b","c">>)

Fragments ==
    { <<Ts0130, TitleX, UrlBare>>,
      <<Ts0530, TitleTableSaw, UrlQuery>>,
      <<Ts010203, TitleX, UrlBare>>,
      <<Ts0530, TitleX>>,
      <<UrlBare>>,
      <<TitleTableSaw, UrlQuery>>,
      <<Ts0130>>,
      <<Filler(<<"\n">>)>> }

RECURSIVE Concat(_)
Concat(seqs) == IF seqs = <<>> THEN <<>> ELSE Head(seqs) \o Concat(Tail(seqs))

TokenTexts ==
    {Concat(fs) : fs \in UNION {[1..n -> Fragments] : n \in 0..MaxFragments}}

TokenChars(tok) ==
    CASE tok.kind = "timestamp" -> TimestampOpen \o tok.val \o TagClose
      [] tok.kind = "title" -> <<"{","{","t","i","t","l","e",":">> \o tok.val \o TagClose
      [] tok.kind = "url" -> <<"{","{","u","r","l",":">> \o tok.val \o TagClose
      [] OTHER -> tok.val

RECURSIVE Render(_)
Render(toks) ==
    IF toks = <<>> THEN <<>> ELSE TokenChars(Head(toks)) \o Render(Tail(toks))


(***************************************************************************)
(* DatabaseService.getRelatedProducts: the SQL it sends and what it makes  *)
(* of the rows.                                                            *)
(***************************************************************************)
\* SQL NULL and JavaScript null: a value no string is equal to
NULL == <<"NULL">>

\* text LIKE pattern, from index i of the text and index j of the pattern:
\* % is any run of characters, _ any one character, and a backslash makes
\* the character after it literal
RECURSIVE LikeFrom(_, _, _, _)
LikeFrom(text, i, pattern, j) ==
    IF j > Len(pattern) THEN i > Len(text)
    ELSE IF pattern[j] = "%"
    THEN \/ LikeFrom(text, i, pattern, j + 1)
         \/ i <= Len(text) /\ LikeFrom(text, i + 1, pattern, j)
    ELSE IF pattern[j] = "_"
    THEN i <= Len(text) /\ LikeFrom(text, i + 1, pattern, j + 1)
    ELSE IF pattern[j] = "\\" /\ j < Len(pattern)
    THEN /\ i <= Len(text)
         /\ text[i] = pattern[j + 1]
         /\ LikeFrom(text, i + 1, pattern, j + 2)
    ELSE /\ i <= Len(text)
         /\ text[i] = pattern[j]
         /\ LikeFrom(text, i + 1, pattern, j + 1)

LikeMatch(text, pattern) == LikeFrom(text, 1, pattern, 1)

\* SQL LOWER() on the pattern parameter
LowerParam(term) == toLowerCase(term)

\* ColumnLower without the case folding
ColumnAsStored(tags) == tags

\* SQL LOWER(p.tags)
ColumnLower(tags) == toLowerCase(tags)

\* videoTitles.map(title => `%${title.toLowerCase().trim()}%`)
SearchTerm(title) == <<"%">> \o trim(toLowerCase(title)) \o <<"%">>

SearchTerms(videoTitles) ==
    [k \in 1..Len(videoTitles) |-> SearchTerm(videoTitles[k])]

\* WhereMatches with the comparison also made the other way round: a row
\* matches as well when one of the titles contains its tags column
WhereMatchesEitherWay(tags, searchTerms) ==
    /\ tags # NULL
    /\ \E k \in 1..Len(searchTerms) :
          \/ LikeMatch(ColumnLower(tags), LowerParam(searchTerms[k]))
          \/ LikeMatch(LowerParam(SubSeq(searchTerms[k], 2, Len(searchTerms[k]) - 1)),
                       <<"%">> \o ColumnLower(tags) \o <<"%">>)

\* WHERE LOWER(p.tags) LIKE LOWER($1) OR ... ; a NULL column matches nothing
WhereMatches(tags, searchTerms) ==
    /\ tags # NULL
    /\ \E k \in 1..Len(searchTerms) :
          LikeMatch(ColumnLower(tags), LowerParam(searchTerms[k]))

\* the ids of a set, ascending (ORDER BY p.id)
RECURSIVE Ascending(_)
Ascending(ids) ==
    IF ids = {} THEN <<>>
    ELSE LET least == CHOOSE i \in ids : \A j \in ids : i <= j
         IN  <<least>> \o Ascending(ids \ {least})

\* SELECT DISTINCT ON (p.id) p.id, p.title, p.tags, p.link FROM products p
\* WHERE ... ORDER BY p.id
QueryRows(table, searchTerms) ==
    LET ids == Ascending({i \in DOMAIN table :
                             WhereMatches(table[i], searchTerms)})
    IN  [k \in 1..Len(ids) |-> [id |-> ids[k], tags |-> table[ids[k]]]]

\* product.tags?.split(',').map(tag => tag.trim()) || []
FormatTags(tags) ==
    IF tags = NULL THEN <<>>
    ELSE LET parts == Split(tags, ",")
         IN  [k \in 1..Len(parts) |-> trim(parts[k])]

FormatProduct(row) == [id |-> row.id, tags |-> FormatTags(row.tags)]

StoreOutcomes == {"ok", "connect_error", "query_error"}

\* the value getRelatedProducts resolves to
getRelatedProducts(videoTitles, table, outcome) ==
    IF videoTitles = <<>> THEN <<>>
    ELSE IF outcome # "ok" THEN <<>>
    ELSE LET rows == QueryRows(table, SearchTerms(videoTitles))
         IN  [k \in 1..Len(rows) |-> FormatProduct(rows[k])]

\* StoreAfter without the early return for an empty list of titles
StoreAfterNoEarlyReturn(st, videoTitles, outcome) ==
    [connects |-> st.connects + 1,
     queries |-> st.queries + (IF outcome = "connect_error" THEN 0 ELSE 1),
     held |-> st.held + (IF outcome = "connect_error" THEN 0 ELSE 1)]

\* what getRelatedProducts does to the pool: client.connect(), conn.query(),
\* and no release of the connection
StoreAfter(st, videoTitles, outcome) ==
    IF videoTitles = <<>> THEN st
    ELSE [connects |-> st.connects + 1,
          queries |-> st.queries + (IF outcome = "connect_error" THEN 0 ELSE 1),
          held |-> st.held + (IF outcome = "connect_error" THEN 0 ELSE 1)]

(***************************************************************************)
(* The DatabaseService of src/lib/db.ts: the same query without the trim   *)
(* of the titles, without ORDER BY, and sent through the pool itself.      *)
(***************************************************************************)
\* videoTitles.map(title => `%${title}%`)
SearchTermLib(title) == <<"%">> \o title \o <<"%">>

SearchTermsLib(videoTitles) ==
    [k \in 1..Len(videoTitles) |-> SearchTermLib(videoTitles[k])]

\* the orders in which the rows of SELECT DISTINCT ON (id) ... (no ORDER BY)
\* can come back: any order of the matching ids
QueryRowOrdersLib(table, searchTerms) ==
    LET ids == {i \in DOMAIN table : WhereMatches(table[i], searchTerms)}
        n == Cardinality(ids)
    IN  {[k \in 1..n |-> [id |-> f[k], tags |-> table[f[k]]]] :
            f \in {g \in [1..n -> ids] : \A a, b \in 1..n : a # b => g[a] # g[b]}}

\* product.tags?.split(',') || []
FormatProductLib(row) ==
    [id |-> row.id,
     tags |-> IF row.tags = NULL THEN <<>> ELSE Split(row.tags, ",")]

\* the values getRelatedProducts of src/lib/db.ts can resolve to
getRelatedProductsLib(videoTitles, table, outcome) ==
    IF videoTitles = <<>> \/ outcome # "ok" THEN {<<>>}
    ELSE {[k \in 1..Len(rows) |-> FormatProductLib(rows[k])] :
            rows \in QueryRowOrdersLib(table, SearchTermsLib(videoTitles))}

\* this.client.query(): the pool takes and returns the connection itself
StoreAfterLib(st, videoTitles) ==
    IF videoTitles = <<>> THEN st
    ELSE [st EXCEPT !.queries = st.queries + 1]

(***************************************************************************)
(* The tags columns and the video titles the matcher is tried on.          *)
(***************************************************************************)
TagColumns ==
    { <<"T","a","b","l","e"," ","S","a","w"," ","S","a","f","e","t","y">>,
      <<"R","o","u","t","e","r",","," ","T","a","b","l","e"," ","S","a","w">>,
      <<"s","a","w">>,
      <<"G","l","u","e",","," ","a","\\","b">>,
      NULL }

Tables == UNION {[1..n -> TagColumns] : n \in 0..MaxProducts}

VideoTitles ==
    { <<"t","a","b","l","e"," ","s","a","w">>,
      <<"T","a","b","l","e"," ","S","a","w"," ">>,
      <<"r","o","u","t","e","r",","," ","t","a","b","l","e">>,
      <<"t","_","b","l","e">>,
      <<"T","a","b","l","e"," ","S","a","w"," ","B","a","s","i","c","s">>,
      <<"S","A","W">>,
      <<"a","\\","b">> }

TitleLists == UNION {[1..n -> VideoTitles] : n \in 0..MaxTitles}

NoStoreUse == [connects |-> 0, queries |-> 0, held |-> 0]

NotCalled == [impl |-> "none", outcome |-> "none", products |-> <<>>]

(***************************************************************************)
(* Matcher harness: a products table and a list of titles are drawn and    *)
(* getRelatedProducts is called once.                                      *)
(***************************************************************************)
MInit ==
    /\ productsTable \in Tables
    /\ mTitles \in TitleLists
    /\ store = NoStoreUse
    /\ mResult = NotCalled

MIdle ==
    /\ productsTable = <<>>
    /\ mTitles = <<>>
    /\ store = NoStoreUse
    /\ mResult = NotCalled

RunMatcher ==
    /\ mResult = NotCalled
    /\ \E outcome \in StoreOutcomes :
          /\ mResult' = [impl |-> "route",
                         outcome |-> IF mTitles = <<>> THEN "ok" ELSE outcome,
                         products |-> getRelatedProducts(mTitles, productsTable,
                                                         outcome)]
          /\ store' = StoreAfter(store, mTitles, outcome)
    /\ UNCHANGED <<productsTable, mTitles>>

RunMatcherLib ==
    /\ mResult = NotCalled
    /\ \E outcome \in {"ok", "query_error"} :
          \E products \in getRelatedProductsLib(mTitles, productsTable, outcome) :
              mResult' = [impl |-> "lib",
                          outcome |-> IF mTitles = <<>> THEN "ok" ELSE outcome,
                          products |-> products]
    /\ store' = StoreAfterLib(store, mTitles)
    /\ UNCHANGED <<productsTable, mTitles>>

(***************************************************************************)
(* checkRelevance and rewriteQuery.                                        *)
(***************************************************************************)
GREETING == <<"G","R","E","E","T","I","N","G">>
RELEVANT == <<"R","E","L","E","V","A","N","T">>
INAPPROPRIATE == <<"I","N","A","P","P","R","O","P","R","I","A","T","E">>
NOT_RELEVANT == <<"N","O","T","_","R","E","L","E","V","A","N","T">>

\* what the model can answer to the relevance prompt (message.content)
ClassifierContents ==
    { GREETING, RELEVANT, INAPPROPRIATE, NOT_RELEVANT,
      <<"g","r","e","e","t","i","n","g"," ">>,
      <<" ","r","e","l","e","v","a","n","t","\n">>,
      <<"N","O","T"," ","R","E","L","E","V","A","N","T">>,
      <<"R","E","L","E","V","A","N","T",".">>,
      <<" ">>,
      NULL }

\* result.choices[0].message.content?.trim().toUpperCase() || 'NOT_RELEVANT'
checkRelevance(modelContent) ==
    IF modelContent = NULL THEN NOT_RELEVANT
    ELSE LET label == toUpperCase(trim(modelContent))
         IN  IF label = <<>> THEN NOT_RELEVANT ELSE label

\* String.prototype.replace(lit, ""): the first occurrence of lit is removed
ReplaceFirst(s, lit) ==
    LET at == {i \in 1..Len(s) : LitAt(s, i, lit)}
    IN  IF at = {} THEN s
        ELSE LET i == CHOOSE i \in at : \A j \in at : i <= j
             IN  SubSeq(s, 1, i - 1) \o SubSeq(s, i + Len(lit), Len(s))

RewrittenQueryPrefix ==
    <<"R","e","w","r","i","t","t","e","n"," ","q","u","e","r","y",":">>

\* what the model can answer to the rewrite prompt
RewriterContents ==
    { RewrittenQueryPrefix \o <<" ","c","u","t"," ","o","a","k">>,
      <<>>,
      NULL }

\* rewriteQuery giving an empty query when the call threw
rewriteQueryBlankOnError(query, threw, modelContent) ==
    IF threw THEN <<>>
    ELSE IF modelContent = NULL THEN query
    ELSE LET cleanedResponse == trim(ReplaceFirst(modelContent, RewrittenQueryPrefix))
         IN  IF cleanedResponse = <<>> THEN query ELSE cleanedResponse

\* rewriteQuery: the model's answer cleaned, or the query when the answer is
\* empty or the call threw
rewriteQuery(query, threw, modelContent) ==
    IF threw \/ modelContent = NULL THEN query
    ELSE LET cleanedResponse == trim(ReplaceFirst(modelContent, RewrittenQueryPrefix))
         IN  IF cleanedResponse = <<>> THEN query ELSE cleanedResponse

(***************************************************************************)
(* The steps of POST that can throw, as the value or the error they give.  *)
(***************************************************************************)
Returned(v) == [threw |-> FALSE, value |-> v]
Threw == [threw |-> TRUE, value |-> <<>>]

\* checkRelevance has no try: an error of the model call is thrown on
checkRelevanceStep(failed, modelContent) ==
    IF failed THEN Threw ELSE Returned(checkRelevance(modelContent))

\* embed() throws after its retries, or when AbortSignal.timeout(5000) fires
embedStep(outcome) ==
    IF outcome = "ok" THEN Returned(<<"embedding">>) ELSE Threw

\* searchNeonDb retrying the query once before giving up
searchNeonDbRetrying(failed, rows) ==
    IF failed THEN [threw |-> TRUE, value |-> <<>>, queries |-> 2]
    ELSE [threw |-> FALSE, value |-> rows, queries |-> 1]

\* searchNeonDb: one client.query; its catch logs the error and rethrows it
searchNeonDb(failed, rows) ==
    IF failed THEN [threw |-> TRUE, value |-> <<>>, queries |-> 1]
    ELSE [threw |-> FALSE, value |-> rows, queries |-> 1]

\* the video completion answering an empty list of references when it fails
videoCompletionSwallowing(failed, modelContent) ==
    IF failed \/ modelContent = NULL THEN Returned(<<>>)
    ELSE Returned(modelContent)

\* openaiClient.chat.completions.create for the video references, and
\* videoResponse.choices[0].message.content || ''
videoCompletionStep(failed, modelContent) ==
    IF failed THEN Threw
    ELSE Returned(IF modelContent = NULL THEN <<>> ELSE modelContent)

\* getRelatedProducts letting the store's error through
relatedProductsRethrowing(videoTitles, table, outcome) ==
    IF videoTitles # <<>> /\ outcome # "ok" THEN Threw
    ELSE Returned(getRelatedProducts(videoTitles, table, outcome))

\* getRelatedProducts: its catch returns [] and nothing is thrown
relatedProductsStep(videoTitles, table, outcome) ==
    Returned(getRelatedProducts(videoTitles, table, outcome))

(***************************************************************************)
(* POST: the request, the labels that are answered without retrieval, and  *)
(* the responses.                                                          *)
(***************************************************************************)
\* the short-circuit labels without NOT_RELEVANT
ShortCircuitLabelsLessOne == {GREETING, INAPPROPRIATE}

\* relevanceResult === 'GREETING' || ... 'INAPPROPRIATE' || ... 'NOT_RELEVANT'
ShortCircuitLabels == {GREETING, INAPPROPRIATE, NOT_RELEVANT}

MessagePool ==
    { [role |-> "user", content |-> <<"c","u","t">>],
      [role |-> "user", content |-> <<>>],
      [role |-> "assistant", content |-> <<"o","k">>] }

\* a conversation one message longer than the window of slice(-5)
LongHistory ==
    [k \in 1..6 |->
        [role |-> IF k % 2 = 1 THEN "user" ELSE "assistant",
         content |-> <<"m", DigitChars[k + 1]>>]]

\* the bodies a request can carry: unparsable, without a messages array, or
\* with one
\* the answer text the chat page posts as {answer: message.content} once the
\* stream of the answer has finished: without a tag, or with one triple
AnswerTexts == { <<Filler("\n")>>, <<Ts0130, TitleTableSaw, UrlBare>> }

Requests ==
    { [json |-> FALSE, isArray |-> FALSE, messages |-> <<>>,
       hasAnswer |-> FALSE, answer |-> <<>>],
      [json |-> TRUE, isArray |-> FALSE, messages |-> <<>>,
       hasAnswer |-> FALSE, answer |-> <<>>],
      [json |-> TRUE, isArray |-> TRUE, messages |-> LongHistory,
       hasAnswer |-> FALSE, answer |-> <<>>] }
    \cup { [json |-> TRUE, isArray |-> FALSE, messages |-> <<>>,
            hasAnswer |-> TRUE, answer |-> a] : a \in AnswerTexts }
    \cup { [json |-> TRUE, isArray |-> TRUE, messages |-> m,
            hasAnswer |-> FALSE, answer |-> <<>>] :
              m \in UNION {[1..n -> MessagePool] : n \in 0..MaxMessages} }

\* messages.findLast(msg => msg.role === 'user')?.content || ''
LastUserContent(msgs) ==
    LET users == {k \in 1..Len(msgs) : msgs[k].role = "user"}
    IN  IF users = {} THEN <<>>
        ELSE msgs[CHOOSE k \in users : \A j \in users : j <= k].content

\* the products tables the handler is run against
CatalogSamples ==
    { <<>>,
      << <<"T","a","b","l","e"," ","S","a","w"," ","S","a","f","e","t","y">>,
         <<"s","a","w">> >> }

\* the rows searchNeonDb can get back (at most topK = 5 of them)
DocResults == { <<>>, <<"doc1">>, <<"doc1", "doc2">> }

GeneratedTexts ==
    {Concat(fs) : fs \in UNION {[1..n -> Fragments] : n \in 0..MaxGeneratedFragments}}

NoCalls ==
    [checkRelevance |-> 0, streamText |-> 0, rewriteQuery |-> 0, embed |-> 0,
     searchNeonDb |-> 0, videoCompletion |-> 0, processVideoReferences |-> 0,
     getRelatedProducts |-> 0]

NoResponse ==
    [kind |-> "none", status |-> 0, videoReferences |-> <<>>,
     relatedProducts |-> <<>>, message |-> ""]

\* result.toDataStreamResponse()
StreamResponse ==
    [kind |-> "stream", status |-> 200, videoReferences |-> <<>>,
     relatedProducts |-> <<>>, message |-> ""]

\* new Response(JSON.stringify({videoReferences, relatedProducts}))
JsonResponse(dict, products) ==
    [kind |-> "json", status |-> 200, videoReferences |-> dict,
     relatedProducts |-> products, message |-> ""]

\* the catch of POST: status 500 with the message of the error
ErrorResponse(errorMessage) ==
    [kind |-> "error", status |-> 500, videoReferences |-> <<>>,
     relatedProducts |-> <<>>, message |-> errorMessage]

Bump(counters, name) == [counters EXCEPT ![name] = counters[name] + 1]

\* the window of chatHistory.slice(-5)
RecentTurns == 5

\* Array.prototype.slice(-n)
SliceLast(arr, n) ==
    SubSeq(arr, IF Len(arr) > n THEN Len(arr) - n + 1 ELSE 1, Len(arr))

\* messages.map(msg => ({role: msg.role, content: msg.content}))
ChatHistoryOf(msgs) ==
    [k \in 1..Len(msgs) |-> [role |-> msgs[k].role, content |-> msgs[k].content]]

\* the history in the prompt of checkRelevance:
\* JSON.stringify(chatHistory.slice(-5))
checkRelevanceHistory(chatHistory) == SliceLast(chatHistory, RecentTurns)

\* the history in the prompt of rewriteQuery: JSON.stringify(chatHistory)
rewriteQueryHistory(chatHistory) == chatHistory

\* the history in the user message of the video completion:
\* JSON.stringify(chatHistory.slice(-5))
videoCompletionHistory(chatHistory) == SliceLast(chatHistory, RecentTurns)

NotSent == [sent |-> FALSE, history |-> <<>>]

Sent(history) == [sent |-> TRUE, history |-> history]

NoPrompts ==
    [checkRelevance |-> NotSent, rewriteQuery |-> NotSent,
     videoCompletion |-> NotSent]

\* videoResponse.choices[0]: whether message.content is there, and the
\* finish_reason ("stop", or "length" when the output was cut off)
NoVideoResponse == [received |-> FALSE, hasContent |-> FALSE, finish_reason |-> "none"]

FinishReasons == {"stop", "length"}

PInit ==
    /\ pc = "readBody"
    /\ request \in Requests
    /\ messages = <<>>
    /\ lastUserMessage = <<>>
    /\ classifierContent = NULL
    /\ relevanceResult = NULL
    /\ rewrittenQuery = NULL
    /\ similarDocs = <<>>
    /\ videoDict = <<>>
    /\ response = NoResponse
    /\ calls = NoCalls
    /\ faults = {}
    /\ prompts = NoPrompts
    /\ videoResponse = NoVideoResponse

PIdle ==
    /\ pc = "idle"
    /\ request = [json |-> FALSE, isArray |-> FALSE, messages |-> <<>>,
                  hasAnswer |-> FALSE, answer |-> <<>>]
    /\ messages = <<>>
    /\ lastUserMessage = <<>>
    /\ classifierContent = NULL
    /\ relevanceResult = NULL
    /\ rewrittenQuery = NULL
    /\ similarDocs = <<>>
    /\ videoDict = <<>>
    /\ response = NoResponse
    /\ calls = NoCalls
    /\ faults = {}
    /\ prompts = NoPrompts
    /\ videoResponse = NoVideoResponse

\* a catch that records the error and never returns a response
FailWithoutResponse(step) ==
    /\ pc' = "caught"
    /\ response' = response
    /\ faults' = faults \cup {step}

\* the catch of POST
Fail(step) ==
    /\ pc' = "failed"
    /\ response' = ErrorResponse(step)
    /\ faults' = faults \cup {step}

\* await req.json(), messages, chatHistory, lastUserMessage
ReadBody ==
    /\ pc = "readBody"
    /\ IF ~request.json
       THEN /\ Fail("req.json")
            /\ UNCHANGED <<messages, lastUserMessage>>
       ELSE /\ messages' = (IF request.isArray THEN request.messages ELSE <<>>)
            /\ lastUserMessage' = LastUserContent(messages')
            /\ pc' = "checkRelevance"
            /\ UNCHANGED <<response, faults>>
    /\ UNCHANGED <<prompts, videoResponse, request, classifierContent, relevanceResult, rewrittenQuery,
                   similarDocs, videoDict, calls, xvars, mvars, svars, cvars>>

\* await checkRelevance(lastUserMessage, messages) and the branch on its label
CheckRelevance ==
    /\ pc = "checkRelevance"
    /\ calls' = Bump(calls, "checkRelevance")
    /\ prompts' = [prompts EXCEPT
                      !.checkRelevance = Sent(checkRelevanceHistory(messages))]
    /\ \E failed \in BOOLEAN : \E modelContent \in ClassifierContents :
          LET r == checkRelevanceStep(failed, modelContent)
          IN  /\ failed => modelContent = NULL
              /\ classifierContent' = modelContent
              /\ IF r.threw
                 THEN /\ Fail("checkRelevance")
                      /\ UNCHANGED relevanceResult
                 ELSE /\ relevanceResult' = r.value
                      /\ pc' = IF r.value \in ShortCircuitLabels
                               THEN "streamText" ELSE "rewriteQuery"
                      /\ faults' = IF failed THEN faults \cup {"checkRelevance"}
                                   ELSE faults
                      /\ UNCHANGED response
    /\ UNCHANGED <<videoResponse, request, messages, lastUserMessage, rewrittenQuery,
                   similarDocs, videoDict, xvars, mvars, svars, cvars>>

\* the canned answer streamed, and the question rewritten all the same
StreamCannedAnswerThenRewrite ==
    /\ pc = "streamText"
    /\ calls' = Bump(Bump(calls, "streamText"), "rewriteQuery")
    /\ \E failed \in BOOLEAN :
          IF failed THEN Fail("streamText")
          ELSE /\ pc' = "done"
               /\ response' = StreamResponse
               /\ UNCHANGED faults
    /\ UNCHANGED <<prompts, videoResponse, request, messages, lastUserMessage, classifierContent,
                   relevanceResult, rewrittenQuery, similarDocs, videoDict,
                   xvars, mvars, svars, cvars>>

\* await streamText(...) for the label, return result.toDataStreamResponse()
StreamCannedAnswer ==
    /\ pc = "streamText"
    /\ calls' = Bump(calls, "streamText")
    /\ \E failed \in BOOLEAN :
          IF failed THEN Fail("streamText")
          ELSE /\ pc' = "done"
               /\ response' = StreamResponse
               /\ UNCHANGED faults
    /\ UNCHANGED <<prompts, videoResponse, request, messages, lastUserMessage, classifierContent,
                   relevanceResult, rewrittenQuery, similarDocs, videoDict,
                   xvars, mvars, svars, cvars>>

\* await rewriteQuery(lastUserMessage, messages)
RewriteQuery ==
    /\ pc = "rewriteQuery"
    /\ calls' = Bump(calls, "rewriteQuery")
    /\ prompts' = [prompts EXCEPT
                      !.rewriteQuery = Sent(rewriteQueryHistory(messages))]
    /\ \E threw \in BOOLEAN : \E modelContent \in RewriterContents :
          /\ threw => modelContent = NULL
          /\ rewrittenQuery' = rewriteQuery(lastUserMessage, threw, modelContent)
          /\ faults' = IF threw THEN faults \cup {"rewriteQuery"} ELSE faults
    /\ pc' = "embed"
    /\ UNCHANGED <<videoResponse, request, messages, lastUserMessage, classifierContent,
                   relevanceResult, similarDocs, videoDict, response,
                   xvars, mvars, svars, cvars>>

\* Embed going straight on to the video completion, without the search
EmbedSkippingSearch ==
    /\ pc = "embed"
    /\ calls' = Bump(calls, "embed")
    /\ \E outcome \in {"ok", "error", "timeout"} :
          LET r == embedStep(outcome)
          IN  IF r.threw THEN Fail("embed")
              ELSE /\ pc' = "videoCompletion"
                   /\ faults' = IF outcome = "ok" THEN faults
                                ELSE faults \cup {"embed"}
                   /\ UNCHANGED response
    /\ UNCHANGED <<prompts, videoResponse, request, messages, lastUserMessage, classifierContent,
                   relevanceResult, rewrittenQuery, similarDocs, videoDict,
                   xvars, mvars, svars, cvars>>

\* await embed({value: rewrittenQuery, maxRetries: 2, abortSignal: 5 s})
Embed ==
    /\ pc = "embed"
    /\ calls' = Bump(calls, "embed")
    /\ \E outcome \in {"ok", "error", "timeout"} :
          LET r == embedStep(outcome)
          IN  IF r.threw THEN Fail("embed")
              ELSE /\ pc' = "searchNeonDb"
                   /\ faults' = IF outcome = "ok" THEN faults
                                ELSE faults \cup {"embed"}
                   /\ UNCHANGED response
    /\ UNCHANGED <<prompts, videoResponse, request, messages, lastUserMessage, classifierContent,
                   relevanceResult, rewrittenQuery, similarDocs, videoDict,
                   xvars, mvars, svars, cvars>>

\* await dbService.searchNeonDb(embedding, "bents", 5)
SearchNeonDb ==
    /\ pc = "searchNeonDb"
    /\ \E failed \in BOOLEAN : \E rows \in DocResults :
          LET r == searchNeonDb(failed, rows)
          IN  /\ failed => rows = <<>>
              /\ calls' = [calls EXCEPT !.searchNeonDb = @ + r.queries]
              /\ IF r.threw
                 THEN /\ Fail("searchNeonDb")
                      /\ UNCHANGED similarDocs
                 ELSE /\ similarDocs' = r.value
                      /\ pc' = "videoCompletion"
                      /\ faults' = IF failed THEN faults \cup {"searchNeonDb"}
                                   ELSE faults
                      /\ UNCHANGED response
    /\ UNCHANGED <<prompts, videoResponse, request, messages, lastUserMessage, classifierContent,
                   relevanceResult, rewrittenQuery, videoDict, xvars, mvars, svars, cvars>>

\* await openaiClient.chat.completions.create(...) for the video references,
\* and videoResponse.choices[0].message.content || ''
VideoCompletion ==
    /\ pc = "videoCompletion"
    /\ calls' = Bump(calls, "videoCompletion")
    /\ prompts' = [prompts EXCEPT
                      !.videoCompletion =
                          Sent(videoCompletionHistory(ChatHistoryOf(messages)))]
    /\ \E failed \in BOOLEAN : \E isNull \in BOOLEAN : \E tokens \in GeneratedTexts :
       \E finish \in FinishReasons :
          LET modelContent == IF isNull THEN NULL ELSE Render(tokens)
              r == videoCompletionStep(failed, modelContent)
          IN  /\ failed => isNull
              /\ isNull => tokens = <<>> /\ finish = "stop"
              /\ videoResponse' =
                    IF failed THEN videoResponse
                    ELSE [received |-> TRUE, hasContent |-> ~isNull,
                          finish_reason |-> finish]
              /\ xTokens' = tokens
              /\ IF r.threw
                 THEN /\ Fail("videoCompletion")
                      /\ UNCHANGED <<content, videoDict>>
                 ELSE /\ content' = r.value
                      /\ pc' = "processVideoReferences"
                      /\ faults' = IF failed THEN faults \cup {"videoCompletion"}
                                   ELSE faults
                      /\ UNCHANGED <<response, videoDict>>
    /\ UNCHANGED <<request, messages, lastUserMessage, classifierContent,
                   relevanceResult, rewrittenQuery, similarDocs, xRuns, mvars, svars, cvars>>

\* await processVideoReferences(content) on the text of the completion
ProcessVideoReferences ==
    /\ pc = "processVideoReferences"
    /\ calls' = Bump(calls, "processVideoReferences")
    /\ videoDict' = processVideoReferences(content).videoDict
    /\ pc' = "getRelatedProducts"
    /\ UNCHANGED <<prompts, videoResponse, request, messages, lastUserMessage, classifierContent,
                   relevanceResult, rewrittenQuery, similarDocs, response, faults,
                   xvars, mvars, svars, cvars>>

\* Object.values(videoDict).map(v => v.video_title)
TitlesOf(dict) ==
    LET values == ObjectValues(dict)
    IN  [k \in 1..Len(values) |-> values[k].video_title]

\* await dbService.getRelatedProducts(videoTitles), return the JSON response
GetRelatedProducts ==
    /\ pc = "getRelatedProducts"
    /\ calls' = Bump(calls, "getRelatedProducts")
    /\ \E outcome \in StoreOutcomes :
          LET videoTitles == TitlesOf(videoDict)
              r == relatedProductsStep(videoTitles, productsTable, outcome)
              storeFailed == videoTitles # <<>> /\ outcome # "ok"
          IN  /\ videoTitles = <<>> => outcome = "ok"
              /\ store' = StoreAfter(store, videoTitles, outcome)
              /\ mTitles' = videoTitles
              /\ IF r.threw THEN Fail("getRelatedProducts")
                 ELSE /\ pc' = "done"
                      /\ response' = JsonResponse(videoDict, r.value)
                      /\ faults' = IF storeFailed
                                   THEN faults \cup {"getRelatedProducts"}
                                   ELSE faults
    /\ UNCHANGED <<prompts, videoResponse, request, messages, lastUserMessage, classifierContent,
                   relevanceResult, rewrittenQuery, similarDocs, videoDict,
                   xvars, productsTable, mResult, svars, cvars>>

PNext ==
    \/ ReadBody
    \/ CheckRelevance
    \/ StreamCannedAnswer
    \/ RewriteQuery
    \/ Embed
    \/ SearchNeonDb
    \/ VideoCompletion
    \/ ProcessVideoReferences
    \/ GetRelatedProducts

(***************************************************************************)
(* DatabaseService.searchNeonDb: the embedding it sends, the SQL over the  *)
(* bents table and what it makes of the rows.  Vectors have two integer    *)
(* components; distances and similarity scores are counted in hundredths.  *)
(***************************************************************************)
\* a row of the table whose vector column is NULL
NoVector == <<>>

\* Number to text for an integer ("-1" for -1)
IntText(n) == IF n < 0 THEN <<"-">> \o toString(0 - n) ELSE toString(n)

\* text to Number for an integer with an optional sign
IntOf(s) ==
    IF s # <<>> /\ s[1] = "-" THEN 0 - ToNumber(SubSeq(s, 2, Len(s)))
    ELSE ToNumber(s)

\* Array.prototype.join(',')
RECURSIVE Join(_)
Join(parts) ==
    IF parts = <<>> THEN <<>>
    ELSE IF Len(parts) = 1 THEN parts[1]
    ELSE parts[1] \o <<",">> \o Join(Tail(parts))

\* `[${queryEmbedding.join(',')}]`
EmbeddingStr(queryEmbedding) ==
    <<"[">>
        \o Join([k \in 1..Len(queryEmbedding) |-> IntText(queryEmbedding[k])])
        \o <<"]">>

\* $1::vector: the text "[a,b]" read back as a vector
VectorOf(text) ==
    LET parts == Split(SubSeq(text, 2, Len(text) - 1), ",")
    IN  [k \in 1..Len(parts) |-> IntOf(parts[k])]

Dot(a, b) == a[1] * b[1] + a[2] * b[2]

\* the length of a vector (the vectors used have whole lengths)
Norm(a) == CHOOSE n \in 0..10 : n * n = Dot(a, a)

\* vector <=> $1::vector, the cosine distance, in hundredths
CosineDistance(a, b) == 100 - ((100 * Dot(a, b)) \div (Norm(a) * Norm(b)))

\* WHERE vector IS NOT NULL, with the rows of a NULL vector let through as
\* rows at distance 100 (similarity zero)
EligibleRowsNullAsZero(table, scan, q) ==
    [k \in 1..Len(scan) |->
        [id |-> table[scan[k]].id,
         distance |-> IF table[scan[k]].vector = NoVector THEN 100
                      ELSE CosineDistance(table[scan[k]].vector, q)]]

\* FROM bents WHERE vector IS NOT NULL: the rows in the order the scan
\* meets them, each with its distance to the query vector
EligibleRows(table, scan, q) ==
    LET kept == SelectSeq(scan, LAMBDA i : table[i].vector # NoVector)
    IN  [k \in 1..Len(kept) |->
            [id |-> table[kept[k]].id,
             distance |-> CosineDistance(table[kept[k]].vector, q)]]

\* ORDER BY vector <=> $1::vector: ascending distance, rows at the same
\* distance in the order the scan met them
RECURSIVE OrderByDistance(_)
OrderByDistance(rows) ==
    IF rows = <<>> THEN <<>>
    ELSE LET k == CHOOSE k \in 1..Len(rows) :
                     \A j \in 1..Len(rows) :
                        \/ rows[k].distance < rows[j].distance
                        \/ rows[k].distance = rows[j].distance /\ k <= j
         IN  <<rows[k]>>
                \o OrderByDistance(SubSeq(rows, 1, k - 1)
                                       \o SubSeq(rows, k + 1, Len(rows)))

\* LIMIT $2
Limit(rows, topK) ==
    SubSeq(rows, 1, IF topK < Len(rows) THEN topK ELSE Len(rows))

\* a float8 of so many hundredths as the text the driver hands over
\* ("0.6", "0.96", "1", "-0.6")
FloatText(h) ==
    LET a == IF h < 0 THEN 0 - h ELSE h
        tenths == (a % 100) \div 10
        hundredths == a % 10
    IN  (IF h < 0 THEN <<"-">> ELSE <<>>)
            \o toString(a \div 100)
            \o (IF a % 100 = 0 THEN <<>>
                ELSE IF hundredths = 0 THEN <<".", DigitChars[tenths + 1]>>
                ELSE <<".", DigitChars[tenths + 1], DigitChars[hundredths + 1]>>)

\* parseFloat, giving hundredths
parseFloat(text) ==
    LET negative == text # <<>> /\ text[1] = "-"
        digits == IF negative THEN SubSeq(text, 2, Len(text)) ELSE text
        whole == UpTo(digits, 1, ".")
        fraction == SubSeq(digits, Len(whole) + 2, Len(digits))
        padded == SubSeq(fraction \o <<"0", "0">>, 1, 2)
        magnitude == 100 * ToNumber(whole) + ToNumber(padded)
    IN  IF negative THEN 0 - magnitude ELSE magnitude

\* SELECT id, ..., 1 - (vector <=> $1::vector) as similarity_score
SelectRow(row) == [id |-> row.id, similarity_score |-> FloatText(100 - row.distance)]

\* the rows the query of searchNeonDb gives for a scan order of the table
searchNeonDbRows(table, scan, embeddingStr, topK) ==
    LET rows == Limit(OrderByDistance(EligibleRows(table, scan, VectorOf(embeddingStr))),
                      topK)
    IN  [k \in 1..Len(rows) |-> SelectRow(rows[k])]

\* result.rows.map(row => ({id: row.id, ...,
\*                          similarity_score: parseFloat(row.similarity_score)}))
DocumentsOf(rows) ==
    [k \in 1..Len(rows) |->
        [id |-> rows[k].id, similarity_score |-> parseFloat(rows[k].similarity_score)]]

\* the orders in which a scan can meet the rows of a table
ScanOrders(table) ==
    LET n == Len(table)
    IN  {f \in [1..n -> 1..n] : \A a, b \in 1..n : a # b => f[a] # f[b]}

\* the vectors stored in the table, NULL among them, and the query vectors
DocVectors == { <<1, 0>>, <<2, 0>>, <<4, 3>>, <<0, 1>>, <<-1, 0>>, NoVector }

QueryEmbeddings == { <<1, 0>>, <<3, 4>> }

DocTables ==
    UNION {{[i \in 1..n |-> [id |-> i, vector |-> v[i]]] : v \in [1..n -> DocVectors]} :
              n \in 0..MaxDocs}

SearchNotCalled == [threw |-> FALSE, value |-> <<>>, queries |-> 0]

(***************************************************************************)
(* Search harness: a table, a query vector and a topK are drawn and        *)
(* searchNeonDb is called once.                                            *)
(***************************************************************************)
SInit ==
    /\ docsTable \in DocTables
    /\ sQuery \in QueryEmbeddings
    /\ sTopK \in 1..MaxTopK
    /\ sResult = SearchNotCalled

SIdle ==
    /\ docsTable = <<>>
    /\ sQuery = <<>>
    /\ sTopK = 0
    /\ sResult = SearchNotCalled

RunSearch ==
    /\ sResult = SearchNotCalled
    /\ \E failed \in BOOLEAN : \E scan \in ScanOrders(docsTable) :
          sResult' = searchNeonDb(failed,
                        IF failed THEN <<>>
                        ELSE DocumentsOf(searchNeonDbRows(docsTable, scan,
                                             EmbeddingStr(sQuery), sTopK)))
    /\ UNCHANGED <<docsTable, sQuery, sTopK>>

(***************************************************************************)
(* Extraction harness: a text is drawn and processVideoReferences is run   *)
(* on it, up to MaxRuns times.                                             *)
(***************************************************************************)
XInit ==
    /\ xTokens \in TokenTexts
    /\ content = Render(xTokens)
    /\ xRuns = <<>>

RunExtraction ==
    /\ Len(xRuns) < MaxRuns
    /\ xRuns' = Append(xRuns, processVideoReferences(content))
    /\ UNCHANGED <<xTokens, content>>

XIdle ==
    /\ xTokens = <<>>
    /\ content = <<>>
    /\ xRuns = <<>>

vars == <<xvars, mvars, pvars, svars, cvars>>

XNext == RunExtraction /\ UNCHANGED <<mvars, pvars, svars, cvars>>

ExtractInit == XInit /\ MIdle /\ PIdle /\ SIdle /\ QIdle /\ GIdle /\ HIdle

ExtractSpec == ExtractInit /\ [][XNext]_vars

MNext == (RunMatcher \/ RunMatcherLib) /\ UNCHANGED <<xvars, pvars, svars, cvars>>

MatchInit == MInit /\ XIdle /\ PIdle /\ SIdle /\ QIdle /\ GIdle /\ HIdle

MatchSpec == MatchInit /\ [][MNext]_vars

SNext == RunSearch /\ UNCHANGED <<xvars, mvars, pvars, cvars>>

SearchInit == SInit /\ XIdle /\ MIdle /\ PIdle /\ QIdle /\ GIdle /\ HIdle

SearchSpec == SearchInit /\ [][SNext]_vars

(***************************************************************************)
(* One request handled by POST against a products table.                   *)
(***************************************************************************)
Init ==
    /\ PInit
    /\ XIdle
    /\ productsTable \in CatalogSamples
    /\ store = NoStoreUse
    /\ mTitles = <<>>
    /\ mResult = NotCalled
    /\ SIdle
    /\ QIdle
    /\ GIdle
    /\ HIdle

Next == PNext

Spec == Init /\ [][Next]_vars

\* Every call POST awaits returns, throws or times out (the embedding call
\* carries AbortSignal.timeout(5000), the route maxDuration = 30), so a
\* request that can take its next step eventually takes it.  The last two
\* steps are enabled exactly when pc names them and every step of theirs
\* moves pc on, so weak fairness of each is the same as pc not staying there.
LiveSpec ==
    /\ Spec
    /\ WF_vars(ReadBody)
    /\ WF_vars(CheckRelevance)
    /\ WF_vars(StreamCannedAnswer)
    /\ WF_vars(RewriteQuery)
    /\ WF_vars(Embed)
    /\ WF_vars(SearchNeonDb)
    /\ WF_vars(VideoCompletion)
    /\ []<>(pc # "processVideoReferences")
    /\ []<>(pc # "getRelatedProducts")

(***************************************************************************)
(* Two requests handled at the same time.  Each call of POST has its own   *)
(* locals and its own DatabaseService (new DatabaseService() with its own  *)
(* Pool); the steps of the two calls interleave at their awaits.           *)
(***************************************************************************)
InvocationIds == 1..2

\* what a collaborator answers to one call: whether the call failed, the
\* text or rows it gave, and the outcome of an embedding or store call
NoAnswer == [failed |-> FALSE, content |-> <<>>, outcome |-> "ok"]

Failed == [failed |-> TRUE, content |-> NULL, outcome |-> "error"]

Answer(c) == [failed |-> FALSE, content |-> c, outcome |-> "ok"]

Outcome(o) == [failed |-> o # "ok", content |-> <<>>, outcome |-> o]

\* the locals of POST at its start
NewInvocation(req) ==
    [pc |-> "readBody", request |-> req, messages |-> <<>>,
     lastUserMessage |-> <<>>, relevanceResult |-> NULL,
     rewrittenQuery |-> NULL, similarDocs |-> <<>>, content |-> <<>>,
     videoDict |-> <<>>, response |-> NoResponse, store |-> NoStoreUse,
     answers |-> <<>>]

\* POST from one await to the next, on the locals of one call and the answer
\* it got
PostStep(local, a, table) ==
    LET fail(step) == [local EXCEPT !.pc = "failed",
                                    !.response = ErrorResponse(step)]
    IN  CASE local.pc = "readBody" ->
               IF ~local.request.json THEN fail("req.json")
               ELSE LET msgs == IF local.request.isArray
                                THEN local.request.messages ELSE <<>>
                    IN  [local EXCEPT !.messages = msgs,
                                      !.lastUserMessage = LastUserContent(msgs),
                                      !.pc = "checkRelevance"]
          [] local.pc = "checkRelevance" ->
               LET r == checkRelevanceStep(a.failed, a.content)
               IN  IF r.threw THEN fail("checkRelevance")
                   ELSE [local EXCEPT
                            !.relevanceResult = r.value,
                            !.pc = IF r.value \in ShortCircuitLabels
                                   THEN "streamText" ELSE "rewriteQuery"]
          [] local.pc = "streamText" ->
               IF a.failed THEN fail("streamText")
               ELSE [local EXCEPT !.pc = "done", !.response = StreamResponse]
          [] local.pc = "rewriteQuery" ->
               [local EXCEPT
                   !.rewrittenQuery =
                       rewriteQuery(local.lastUserMessage, a.failed, a.content),
                   !.pc = "embed"]
          [] local.pc = "embed" ->
               IF embedStep(a.outcome).threw THEN fail("embed")
               ELSE [local EXCEPT !.pc = "searchNeonDb"]
          [] local.pc = "searchNeonDb" ->
               LET r == searchNeonDb(a.failed, a.content)
               IN  IF r.threw THEN fail("searchNeonDb")
                   ELSE [local EXCEPT !.similarDocs = r.value,
                                      !.pc = "videoCompletion"]
          [] local.pc = "videoCompletion" ->
               LET r == videoCompletionStep(a.failed, a.content)
               IN  IF r.threw THEN fail("videoCompletion")
                   ELSE [local EXCEPT !.content = r.value,
                                      !.pc = "processVideoReferences"]
          [] local.pc = "processVideoReferences" ->
               [local EXCEPT
                   !.videoDict = processVideoReferences(local.content).videoDict,
                   !.pc = "getRelatedProducts"]
          [] local.pc = "getRelatedProducts" ->
               LET videoTitles == TitlesOf(local.videoDict)
                   r == relatedProductsStep(videoTitles, table, a.outcome)
               IN  [local EXCEPT
                       !.store = StoreAfter(local.store, videoTitles, a.outcome),
                       !.response = JsonResponse(local.videoDict, r.value),
                       !.pc = "done"]
          [] OTHER -> local

\* the answers the collaborators can give to the call a request is waiting on
AnswersFor(local) ==
    CASE local.pc \in {"readBody", "processVideoReferences"} -> {NoAnswer}
      [] local.pc = "checkRelevance" -> {Failed, Answer(GREETING), Answer(RELEVANT)}
      [] local.pc = "streamText" -> {Failed, NoAnswer}
      [] local.pc = "rewriteQuery" ->
           {Failed, Answer(RewrittenQueryPrefix \o <<" ","c","u","t"," ","o","a","k">>)}
      [] local.pc = "embed" -> {Outcome("ok"), Outcome("timeout")}
      [] local.pc = "searchNeonDb" -> {Failed, Answer(<<"doc1">>)}
      [] local.pc = "videoCompletion" ->
           {Failed, Answer(NULL), Answer(Render(<<Ts0130, TitleTableSaw, UrlBare>>))}
      [] local.pc = "getRelatedProducts" ->
           IF TitlesOf(local.videoDict) = <<>> THEN {Outcome("ok")}
           ELSE {Outcome("ok"), Outcome("query_error")}
      [] OTHER -> {}

\* lastUserMessage kept in a module-level variable that every call writes
WriteBackShared(all, id, local) ==
    [q \in DOMAIN all |->
        IF q = id THEN local
        ELSE [all[q] EXCEPT !.lastUserMessage = local.lastUserMessage]]

\* the bindings of POST are consts and lets of the call: a step of one call
\* writes the locals of that call only
WriteBack(all, id, local) == [all EXCEPT ![id] = local]

\* the bodies the two requests carry
PairRequests ==
    {r \in Requests : /\ ~r.hasAnswer
                      /\ r.json => r.isArray
                      /\ Len(r.messages) <= 1
                      /\ \A k \in 1..Len(r.messages) : r.messages[k].role = "user"}

PairInit ==
    /\ invocations \in [InvocationIds -> {NewInvocation(r) : r \in PairRequests}]
    /\ productsTable \in CatalogSamples \ {<<>>}
    /\ store = NoStoreUse
    /\ mTitles = <<>>
    /\ mResult = NotCalled
    /\ XIdle
    /\ PIdle
    /\ SIdle
    /\ GIdle
    /\ HIdle

\* one of the two calls gets the answer it is waiting on and runs to its
\* next await
PostStepOf(id) ==
    \E a \in AnswersFor(invocations[id]) :
        LET after == PostStep(invocations[id], a, productsTable)
        IN  invocations' =
                WriteBack(invocations, id,
                          [after EXCEPT !.answers = Append(@, a)])

PairNext ==
    /\ \E id \in InvocationIds : PostStepOf(id)
    /\ UNCHANGED <<xvars, mvars, pvars, svars, sessions, gvars, hvars>>

PairSpec == PairInit /\ [][PairNext]_vars

(***************************************************************************)
(* The chat page (src/app/chat/page.tsx): handleSearch, the delayed submit *)
(* of handleQuestionSelect, onFinish of useChat, saveSessionsToDB,         *)
(* manageSession, recoverState and handleSessionSelect.  A handler sees    *)
(* the state of the render that created it: the timer of                   *)
(* handleQuestionSelect and the onFinish callback carry the values of      *)
(* isLoading, sessions and currentSessionId they closed over.              *)
(***************************************************************************)
\* what the user can have typed into the search bar
Queries == { <<>>, <<" ">>, <<"c","u","t">> }

\* the suggested questions fetched on load
randomQuestions == << <<"o","a","k">> >>

\* message.content of a finished answer
AnswerSamples == { <<>>, <<"o","k">> }

NoSession == [id |-> 0, conversations |-> <<>>]

\* uuidv4(): an id no session of the page, of the row or of a closure has
UsedSessionIds ==
    {sessions[i].id : i \in 1..Len(sessions)}
    \cup {sessionData[i].id : i \in 1..Len(sessionData)}
    \cup UNION {{exchanges[k].closure.sessions[i].id :
                    i \in 1..Len(exchanges[k].closure.sessions)} :
                k \in 1..Len(exchanges)}
    \cup UNION {{t.sessions[i].id : i \in 1..Len(t.sessions)} : t \in timers}

FreshSessionId ==
    CHOOSE n \in 1..(Cardinality(UsedSessionIds) + 1) :
        /\ n \notin UsedSessionIds
        /\ \A m \in 1..(n - 1) : m \in UsedSessionIds

\* sessions.find(s => s.id === id), NoSession for undefined
Find(list, id) ==
    LET at == {i \in 1..Len(list) : list[i].id = id}
    IN  IF at = {} THEN NoSession
        ELSE list[CHOOSE i \in at : \A j \in at : i <= j]

\* prevSessions.map(s => s.id === id ? updatedSession : s)
ReplaceSession(list, id, updatedSession) ==
    [i \in 1..Len(list) |-> IF list[i].id = id THEN updatedSession ELSE list[i]]

\* the page after recoverState: the row of get-session taken over when it is
\* a non-empty array, nothing changed when the call fails or the row is empty
recoverState(page, got) ==
    IF userId /\ got /\ sessionData # <<>>
    THEN LET lastSession == sessionData[Len(sessionData)]
         IN  [page EXCEPT
                 !.sessions = sessionData,
                 !.currentSessionId = lastSession.id,
                 !.currentConversation = lastSession.conversations,
                 !.showInitialQuestions = (lastSession.conversations = <<>>)]
    ELSE page

\* the state of the page the handlers read and set
Page ==
    [sessions |-> sessions, currentSessionId |-> currentSessionId,
     currentConversation |-> currentConversation,
     showInitialQuestions |-> showInitialQuestions,
     searchQuery |-> searchQuery, currentQuestionRef |-> currentQuestionRef,
     sessionData |-> sessionData]

\* how the calls of a handler to the session routes can end: both answer, the
\* post to set-session fails and get-session answers, or both fail
RouteOutcomes == {"ok", "post_failed", "post_and_get_failed"}

\* manageSession: a new empty session posted to set-session (with a userId),
\* appended to sessions and made the current one; recoverState when the post
\* fails
manageSession(page, outcome) ==
    LET newSession == [id |-> FreshSessionId, conversations |-> <<>>]
        cleared == [page EXCEPT !.currentConversation = <<>>,
                                !.showInitialQuestions = TRUE,
                                !.searchQuery = <<>>]
    IN  IF ~userId \/ outcome = "ok"
        THEN [cleared EXCEPT
                 !.sessions = Append(page.sessions, newSession),
                 !.currentSessionId = newSession.id,
                 !.currentQuestionRef = <<>>,
                 !.sessionData = IF userId THEN <<newSession>> ELSE @]
        ELSE recoverState(cleared, outcome = "post_failed")

SetPage(page) ==
    /\ sessions' = page.sessions
    /\ currentSessionId' = page.currentSessionId
    /\ currentConversation' = page.currentConversation
    /\ showInitialQuestions' = page.showInitialQuestions
    /\ searchQuery' = page.searchQuery
    /\ currentQuestionRef' = page.currentQuestionRef
    /\ sessionData' = page.sessionData

\* a question appended to the chat: what was asked, whether useChat was
\* loading at that moment, and the render onFinish closed over
NewExchange(query, closure) ==
    [question |-> query, whileLoading |-> isLoading, closure |-> closure,
     state |-> "streaming", currentQuestion |-> <<>>, answer |-> <<>>,
     updatedSession |-> NoSession]

\* handleSearch passing its guard on the isLoading it sees
handleSearchPasses(query, seen) == trim(query) # <<>> /\ ~seen.isLoading

\* handleSearch of the render `seen`: the guard, manageSession when that
\* render has no current session, and append
handleSearch(query, seen) ==
    IF ~handleSearchPasses(query, seen)
    THEN UNCHANGED <<sessions, currentSessionId, currentConversation,
                     showInitialQuestions, searchQuery, currentQuestionRef,
                     sessionData, exchanges, isLoading>>
    ELSE /\ Len(exchanges) < MaxQuestions
         /\ \E outcome \in RouteOutcomes :
              LET asked == [Page EXCEPT !.currentQuestionRef = query,
                                        !.showInitialQuestions = FALSE]
              IN  /\ (seen.currentSessionId # 0 \/ ~userId) => outcome = "ok"
                  /\ SetPage(IF seen.currentSessionId = 0
                             THEN manageSession(asked, outcome)
                             ELSE asked)
         /\ exchanges' = Append(exchanges,
                NewExchange(query, [sessions |-> seen.sessions,
                                    currentSessionId |-> seen.currentSessionId]))
         /\ isLoading' = TRUE

\* the render the handlers of the page as displayed belong to
CurrentRender ==
    [isLoading |-> isLoading, sessions |-> sessions,
     currentSessionId |-> currentSessionId]

\* onChange of the search bar: !loading && setSearchQuery(e.target.value)
TypeQuery ==
    /\ ~isLoading
    /\ \E q \in Queries : q # searchQuery /\ searchQuery' = q
    /\ UNCHANGED <<sessions, currentSessionId, userId, isLoading,
                   currentConversation, showInitialQuestions,
                   currentQuestionRef, timers, exchanges, recorded, sessionData>>
    /\ UNCHANGED offPage

\* Enter in the search bar (handleKeyPress) or the submit of its form
SubmitForm ==
    /\ handleSearchPasses(searchQuery, CurrentRender)
    /\ handleSearch(searchQuery, CurrentRender)
    /\ UNCHANGED <<userId, timers, recorded>>
    /\ UNCHANGED offPage

\* handleQuestionSelect: a click on a suggested question while the
\* suggestions are displayed; the submit is left to a timer of 100 ms
QuestionSelect ==
    /\ currentConversation = <<>>
    /\ showInitialQuestions
    /\ ~isLoading
    /\ Cardinality(timers) < MaxTimers
    /\ \E index \in DOMAIN randomQuestions :
          timers' = timers \cup {[index |-> index, isLoading |-> isLoading,
                                  sessions |-> sessions,
                                  currentSessionId |-> currentSessionId]}
    /\ showInitialQuestions' = FALSE
    /\ currentConversation' = <<>>
    /\ UNCHANGED <<sessions, currentSessionId, userId, isLoading, searchQuery,
                   currentQuestionRef, exchanges, recorded, sessionData>>
    /\ UNCHANGED offPage

\* the timer of handleQuestionSelect fires: handleSearch(null, index) of the
\* render the click was handled in
DelayedSubmit ==
    /\ \E t \in timers :
          /\ timers' = timers \ {t}
          /\ handleSearch(randomQuestions[t.index],
                          [isLoading |-> t.isLoading, sessions |-> t.sessions,
                           currentSessionId |-> t.currentSessionId])
    /\ UNCHANGED <<userId, recorded>>
    /\ UNCHANGED offPage

\* the stream of an answer ends: useChat stops loading, handleSearch clears
\* the search bar, and onFinish starts on the question in currentQuestionRef
StreamFinishes ==
    /\ \E k \in DOMAIN exchanges : \E answer \in AnswerSamples : \E latest \in BOOLEAN :
          LET x == exchanges[k]
              closure == IF latest
                         THEN [sessions |-> sessions,
                               currentSessionId |-> currentSessionId]
                         ELSE x.closure
              returns == trim(currentQuestionRef) = <<>>
                            \/ closure.currentSessionId = 0
          IN  /\ x.state = "streaming"
              /\ exchanges' =
                    [exchanges EXCEPT ![k] =
                        [x EXCEPT !.state = IF returns THEN "unrecorded" ELSE "links",
                                  !.closure = closure,
                                  !.currentQuestion = currentQuestionRef,
                                  !.answer = answer]]
    /\ isLoading' = FALSE
    /\ searchQuery' = <<>>
    /\ UNCHANGED <<sessions, currentSessionId, userId, currentConversation,
                   showInitialQuestions, currentQuestionRef, timers, recorded,
                   sessionData>>
    /\ UNCHANGED offPage

\* [...(currentSession.conversations || []), newConversation]
UpdatedSession(currentSession, k, x) ==
    [currentSession EXCEPT
        !.conversations = Append(@, [id |-> k, question |-> x.currentQuestion,
                                     text |-> x.answer])]

\* onFinish after saveSessionsToDB: the session replaced in sessions
RecordLocally(k, x, list, updatedSession) ==
    /\ sessions' = ReplaceSession(list, x.closure.currentSessionId, updatedSession)
    /\ currentConversation' = updatedSession.conversations
    /\ recorded' = Append(recorded,
                      [session |-> updatedSession.id,
                       conversation |-> updatedSession.conversations[
                                            Len(updatedSession.conversations)]])
    /\ exchanges' = [exchanges EXCEPT ![k] = [x EXCEPT !.state = "recorded",
                                               !.updatedSession = updatedSession]]

\* the post of onFinish to /api/links returns: the new conversation is put
\* at the end of the current session of the closure; recoverState when the
\* post fails
LinksReturns ==
    /\ \E k \in DOMAIN exchanges : \E outcome \in RouteOutcomes :
          LET x == exchanges[k]
              currentSession == Find(x.closure.sessions, x.closure.currentSessionId)
              updatedSession == UpdatedSession(currentSession, k, x)
          IN  /\ x.state = "links"
              /\ ~userId => outcome # "post_and_get_failed"
              /\ IF outcome # "ok"
                 THEN /\ SetPage(recoverState(Page, outcome = "post_failed"))
                      /\ exchanges' = [exchanges EXCEPT ![k].state = "unrecorded"]
                      /\ UNCHANGED recorded
                 ELSE IF currentSession = NoSession
                 THEN /\ exchanges' = [exchanges EXCEPT ![k].state = "unrecorded"]
                      /\ UNCHANGED <<sessions, currentConversation, recorded,
                                     currentSessionId, showInitialQuestions,
                                     searchQuery, currentQuestionRef, sessionData>>
                 ELSE IF userId
                 THEN /\ exchanges' =
                            [exchanges EXCEPT ![k] =
                                [x EXCEPT !.state = "saving",
                                          !.updatedSession = updatedSession]]
                      /\ UNCHANGED <<sessions, currentConversation, recorded,
                                     currentSessionId, showInitialQuestions,
                                     searchQuery, currentQuestionRef, sessionData>>
                 ELSE /\ RecordLocally(k, x, sessions, updatedSession)
                      /\ UNCHANGED <<currentSessionId, showInitialQuestions,
                                     searchQuery, currentQuestionRef, sessionData>>
    /\ UNCHANGED <<userId, isLoading, timers>>
    /\ UNCHANGED offPage

\* the filter of saveSessionsToDB: every conversation has a question, a text
\* and a timestamp
ValidSessions(updatedSessions) ==
    SelectSeq(updatedSessions,
              LAMBDA s : /\ s.id # 0
                         /\ \A c \in 1..Len(s.conversations) :
                               /\ s.conversations[c].question # <<>>
                               /\ s.conversations[c].text # <<>>)

\* setSessions(validSessions) once set-session has answered success
SessionsAfterSave(list, validSessions, posted) ==
    IF posted THEN validSessions ELSE list

\* await saveSessionsToDB([updatedSession]) of onFinish returns, and onFinish
\* replaces the session in sessions
SaveReturns ==
    /\ \E k \in DOMAIN exchanges : \E posted \in BOOLEAN :
          LET x == exchanges[k]
              validSessions == ValidSessions(<<x.updatedSession>>)
              currentSession == Find(validSessions, x.closure.currentSessionId)
              sent == validSessions # <<>> /\ currentSession # NoSession
          IN  /\ x.state = "saving"
              /\ ~sent => ~posted
              /\ sessionData' = IF posted THEN <<currentSession>> ELSE sessionData
              /\ RecordLocally(k, x,
                               SessionsAfterSave(sessions, validSessions, posted),
                               x.updatedSession)
    /\ UNCHANGED <<currentSessionId, userId, isLoading, searchQuery,
                   showInitialQuestions, currentQuestionRef, timers>>
    /\ UNCHANGED offPage

\* handleNewConversation: manageSession
NewConversation ==
    /\ FreshSessionId <= MaxSessions
    /\ \E outcome \in RouteOutcomes :
          /\ ~userId => outcome = "ok"
          /\ SetPage(manageSession(Page, outcome))
    /\ UNCHANGED <<userId, isLoading, timers, exchanges, recorded>>
    /\ UNCHANGED offPage

\* handleSessionSelect
SessionSelect ==
    /\ \E i \in 1..Len(sessions) :
          /\ sessions[i].id # currentSessionId
          /\ currentSessionId' = sessions[i].id
          /\ currentConversation' = sessions[i].conversations
          /\ showInitialQuestions' = (sessions[i].conversations = <<>>)
    /\ UNCHANGED <<sessions, userId, isLoading, searchQuery, currentQuestionRef,
                   timers, exchanges, recorded, sessionData>>
    /\ UNCHANGED offPage

\* the page once loaded: with a userId the load effect has created and saved
\* an empty session; without one there is no session yet
PageInit ==
    /\ userId \in BOOLEAN
    /\ sessions = (IF userId THEN <<[id |-> 1, conversations |-> <<>>]>> ELSE <<>>)
    /\ sessionData = sessions
    /\ currentSessionId = (IF userId THEN 1 ELSE 0)
    /\ currentConversation = <<>>
    /\ isLoading = FALSE
    /\ searchQuery = <<>>
    /\ showInitialQuestions = TRUE
    /\ currentQuestionRef = <<>>
    /\ timers = {}
    /\ exchanges = <<>>
    /\ recorded = <<>>
    /\ XIdle
    /\ MIdle
    /\ PIdle
    /\ SIdle
    /\ QIdle
    /\ HIdle

PageNext ==
    \/ TypeQuery
    \/ SubmitForm
    \/ QuestionSelect
    \/ DelayedSubmit
    \/ StreamFinishes
    \/ LinksReturns
    \/ SaveReturns
    \/ NewConversation
    \/ SessionSelect

PageSpec == PageInit /\ [][PageNext]_vars

(***************************************************************************)
(* useSession of src/lib/hooks/useSession.ts: the effect that saves the    *)
(* sessions one second after they last changed.  Time is counted in        *)
(* milliseconds; a timer fires at its due time or later.                   *)
(***************************************************************************)
\* the delay of the setTimeout of the save effect
SaveDelay == 1000

\* the values setSessions can be given
SessionLists ==
    { <<>>,
      <<[id |-> 1, conversations |-> <<>>]>>,
      <<[id |-> 1, conversations |-> <<>>], [id |-> 2, conversations |-> <<>>]>> }

\* an effect whose cleanup leaves the timer of the run before in place
clearTimeoutForgotten(pending, timeoutId) == pending

\* the cleanup of the effect: clearTimeout(timeoutId)
clearTimeout(pending, timeoutId) == {t \in pending : t.id # timeoutId}

\* the body of the effect for the value `list` of sessions: a timer for
\* saveSessions(list) when the list is not empty
saveEffect(pending, list, timeoutId, now) ==
    IF Len(list) > 0
    THEN pending \cup {[id |-> timeoutId, value |-> list, setAt |-> now,
                        due |-> now + SaveDelay]}
    ELSE pending

\* setSessions(list): sessions changes, the cleanup of the effect of the
\* value before runs, then the effect of the new value
SetSessions ==
    /\ sessionsVersion < MaxChanges
    /\ \E list \in SessionLists :
          /\ sessions' = list
          /\ sessionsVersion' = sessionsVersion + 1
          /\ timeouts' = saveEffect(clearTimeout(timeouts, sessionsVersion),
                                    list, sessionsVersion + 1, clock)
    /\ UNCHANGED <<clock, saves>>
    /\ UNCHANGED <<xvars, mvars, pvars, svars, qvars, gvars>>

\* time passes
TimePasses ==
    /\ \E d \in {SaveDelay \div 2, SaveDelay} :
          /\ clock + d <= MaxClock
          /\ clock' = clock + d
    /\ UNCHANGED <<sessions, sessionsVersion, timeouts, saves>>
    /\ UNCHANGED <<xvars, mvars, pvars, svars, qvars, gvars>>

\* a timer of the effect fires: saveSessions(sessions) of the render that
\* set it
TimeoutFires ==
    /\ \E t \in timeouts :
          /\ clock >= t.due
          /\ timeouts' = timeouts \ {t}
          /\ saves' = Append(saves, [value |-> t.value, version |-> t.id,
                                     setAt |-> t.setAt, at |-> clock,
                                     current |-> t.id = sessionsVersion])
    /\ UNCHANGED <<sessions, sessionsVersion, clock>>
    /\ UNCHANGED <<xvars, mvars, pvars, svars, qvars, gvars>>

\* useState([]) and no timer
HookInit ==
    /\ sessions = <<>>
    /\ sessionsVersion = 0
    /\ timeouts = {}
    /\ clock = 0
    /\ saves = <<>>
    /\ currentSessionId = 0
    /\ userId = FALSE
    /\ isLoading = FALSE
    /\ searchQuery = <<>>
    /\ currentConversation = <<>>
    /\ showInitialQuestions = FALSE
    /\ currentQuestionRef = <<>>
    /\ timers = {}
    /\ exchanges = <<>>
    /\ recorded = <<>>
    /\ sessionData = <<>>
    /\ XIdle
    /\ MIdle
    /\ PIdle
    /\ SIdle
    /\ QIdle

HookNext ==
    \/ SetSessions
    \/ TimePasses
    \/ TimeoutFires

HookSpec == HookInit /\ [][HookNext]_vars

(***************************************************************************)
(* What a text is made of, read off its tags (not off its characters).     *)
(***************************************************************************)
\* MM:SS with two digits each, the timestamp of the tag micro-format
IsMMSS(v) ==
    /\ Len(v) = 5
    /\ v[3] = ":"
    /\ \A k \in {1, 2, 4, 5} : IsDigit(v[k])

\* HH:MM:SS with two digits each
IsHHMMSS(v) ==
    /\ Len(v) = 8
    /\ v[3] = ":" /\ v[6] = ":"
    /\ \A k \in {1, 2, 4, 5, 7, 8} : IsDigit(v[k])

\* a timestamp tag, a title tag and a url tag, contiguous, starting at token i
CompleteAt(toks, i) ==
    /\ i + 2 <= Len(toks)
    /\ toks[i].kind = "timestamp"
    /\ toks[i + 1].kind = "title"
    /\ toks[i + 2].kind = "url"

MMSSTripleAt(toks, i) == CompleteAt(toks, i) /\ IsMMSS(toks[i].val)

AnyTripleAt(toks, i) ==
    CompleteAt(toks, i) /\ (IsMMSS(toks[i].val) \/ IsHHMMSS(toks[i].val))

\* the token index of the n-th (1-based) triple among the positions in pos
RECURSIVE NthOf(_, _)
NthOf(pos, n) ==
    LET least == CHOOSE i \in pos : \A j \in pos : i <= j
    IN  IF n = 1 THEN least ELSE NthOf(pos \ {least}, n - 1)

MMSSPositions(toks) == {i \in 1..Len(toks) : MMSSTripleAt(toks, i)}
AnyPositions(toks) == {i \in 1..Len(toks) : AnyTripleAt(toks, i)}

\* a tag that belongs to no complete contiguous triple
StrayTagAt(toks, i) ==
    /\ toks[i].kind # "filler"
    /\ ~CompleteAt(toks, i)
    /\ ~(i > 1 /\ CompleteAt(toks, i - 1))
    /\ ~(i > 2 /\ CompleteAt(toks, i - 2))

HasStrayTag(toks) == \E i \in 1..Len(toks) : StrayTagAt(toks, i)

OrdinalKey(n) == <<DigitChars[n + 1]>>

\* the deep link is url, then sep, then "t=", then the decimal digits of secs
IsDeepLink(link, url, sep, secs) ==
    /\ Len(link) > Len(url) + 3
    /\ SubSeq(link, 1, Len(url)) = url
    /\ SubSeq(link, Len(url) + 1, Len(url) + 3) = <<sep, "t", "=">>
    /\ \A k \in (Len(url) + 4)..Len(link) : IsDigit(link[k])
    /\ link[Len(url) + 4] # "0" \/ Len(link) = Len(url) + 4
    /\ ToNumber(SubSeq(link, Len(url) + 4, Len(link))) = secs

(***************************************************************************)
(* Claims about processVideoReferences, checked under ExtractSpec.         *)
(***************************************************************************)
\* C6: for every text, extraction returns exactly one video reference per
\* contiguous {{timestamp:MM:SS}}{{title:..}}{{url:..}} triple, in order of
\* appearance, keyed by the ordinals "0".."n-1" with no gap and no duplicate,
\* and a second run on the same text returns the identical result.
ExtractionOnePerTripleInOrder ==
    \A r \in 1..Len(xRuns) :
        LET dict == xRuns[r].videoDict
            pos == MMSSPositions(xTokens)
            n == Cardinality(pos)
        IN  /\ DOMAIN dict = {OrdinalKey(k) : k \in 0..(n - 1)}
            /\ Cardinality(DOMAIN dict) = n
            /\ \A k \in 0..(n - 1) :
                  LET i == NthOf(pos, k + 1)
                      ref == dict[OrdinalKey(k)]
                  IN  /\ ref.timestamp = xTokens[i].val
                      /\ ref.video_title = xTokens[i + 1].val
                      /\ Len(ref.urls) = 1
                      /\ SubSeq(ref.urls[1], 1, Len(xTokens[i + 2].val))
                            = xTokens[i + 2].val
            /\ xRuns[r] = xRuns[1]
            /\ xRuns[r].processedAnswer = content

\* C6 witness: two runs were made on a text holding two different triples
ExtractionTwoTriplesTwice ==
    /\ Len(xRuns) = 2
    /\ Cardinality(MMSSPositions(xTokens)) = 2
    /\ Cardinality(DOMAIN xRuns[2].videoDict) = 2
    /\ xRuns[2].videoDict[<<"0">>] # xRuns[2].videoDict[<<"1">>]

\* C7: every well-formed triple, with an MM:SS or an HH:MM:SS timestamp,
\* yields exactly one video reference whose deep link carries t=<total
\* seconds> ("05:30" gives 330, "01:02:03" gives 3723).
ExtractionCoversBothTimestampForms ==
    \A r \in 1..Len(xRuns) :
        LET dict == xRuns[r].videoDict
            pos == AnyPositions(xTokens)
            n == Cardinality(pos)
        IN  /\ Cardinality(DOMAIN dict) = n
            /\ \A k \in 0..(n - 1) :
                  LET i == NthOf(pos, k + 1)
                  IN  /\ OrdinalKey(k) \in DOMAIN dict
                      /\ \E sep \in {"?", "&"} :
                            IsDeepLink(dict[OrdinalKey(k)].urls[1],
                                       xTokens[i + 2].val, sep, xTokens[i].secs)

\* C8: the deep link of every extracted reference is the source url followed
\* by "&t=<seconds>" when the source url holds a "?" and by "?t=<seconds>"
\* otherwise; the source url is a prefix of the deep link, unaltered.
DeepLinkAppendsToSourceUrl ==
    \A r \in 1..Len(xRuns) :
        LET dict == xRuns[r].videoDict
            pos == MMSSPositions(xTokens)
        IN  \A k \in 0..(Cardinality(pos) - 1) :
                LET i == NthOf(pos, k + 1)
                    url == xTokens[i + 2].val
                    hasQuery == \E j \in 1..Len(url) : url[j] = "?"
                IN  /\ OrdinalKey(k) \in DOMAIN dict
                    /\ IsDeepLink(dict[OrdinalKey(k)].urls[1], url,
                                  IF hasQuery THEN "&" ELSE "?", xTokens[i].secs)

\* C8 witness: one text gave https://x/y?v=abc&t=90 and https://x/y?t=90
DeepLinkBothSeparators ==
    /\ Len(xRuns) >= 1
    /\ \E a, b \in DOMAIN xRuns[1].videoDict :
          /\ xRuns[1].videoDict[a].urls =
                <<UrlQuery.val \o <<"&","t","=","9","0">> >>
          /\ xRuns[1].videoDict[b].urls =
                <<UrlBare.val \o <<"?","t","=","9","0">> >>

\* C9: tags that lack one of the three parts, or are not contiguous, give no
\* video reference (every reference returned comes from a complete contiguous
\* triple of the text), and the well-formed triples of the same text are
\* still extracted, every one of them.
ExtractionSkipsIncompleteTags ==
    \A r \in 1..Len(xRuns) :
        LET dict == xRuns[r].videoDict
        IN  /\ \A key \in DOMAIN dict :
                  \E i \in 1..Len(xTokens) :
                      /\ CompleteAt(xTokens, i)
                      /\ dict[key].timestamp = xTokens[i].val
                      /\ dict[key].video_title = xTokens[i + 1].val
            /\ Cardinality(DOMAIN dict) <= Cardinality({i \in 1..Len(xTokens) :
                                                        CompleteAt(xTokens, i)})
            /\ HasStrayTag(xTokens) =>
                  \A i \in MMSSPositions(xTokens) :
                      \E key \in DOMAIN dict :
                          /\ dict[key].timestamp = xTokens[i].val
                          /\ dict[key].video_title = xTokens[i + 1].val

\* C9 witness: the text {{timestamp:05:30}}{{title:X}} with no url part,
\* followed on the next line by one well-formed triple, gave one reference
ExtractionStrayTagsBesideTriple ==
    /\ Len(xRuns) >= 1
    /\ xTokens = <<Ts0530, TitleX, Filler(<<"\n">>),
                   Ts0530, TitleTableSaw, UrlQuery>>
    /\ DOMAIN xRuns[1].videoDict = {<<"0">>}

(***************************************************************************)
(* Claims about getRelatedProducts, checked under MatchSpec.               *)
(***************************************************************************)
\* t occurs in s as a contiguous run of characters
Contains(s, t) ==
    \E i \in 1..(Len(s) - Len(t) + 1) : SubSeq(s, i, i + Len(t) - 1) = t

ContainsIgnoringCase(s, t) == Contains(toLowerCase(s), toLowerCase(t))

\* the individual tags of a tags column
IndividualTags(tags) ==
    IF tags = NULL THEN {}
    ELSE {Split(tags, ",")[k] : k \in 1..Len(Split(tags, ","))}

HasLikeMetaCharacter(title) ==
    \E k \in 1..Len(title) : title[k] \in {"%", "_", "\\"}

\* the products with an individual tag that contains one of the titles
IdsWithTagContaining(table, titles) ==
    {i \in DOMAIN table :
        \E tag \in IndividualTags(table[i]) : \E k \in 1..Len(titles) :
            ContainsIgnoringCase(tag, titles[k])}

\* the products whose whole tags column contains one of the titles
IdsWithColumnContaining(table, titles) ==
    {i \in DOMAIN table :
        /\ table[i] # NULL
        /\ \E k \in 1..Len(titles) : ContainsIgnoringCase(table[i], titles[k])}

Trimmed(titles) == [k \in 1..Len(titles) |-> trim(titles[k])]

ReturnedIds == {mResult.products[k].id : k \in 1..Len(mResult.products)}

MatcherAnswered == mResult.outcome = "ok" /\ mTitles # <<>>

TagSaw == <<"s","a","w">>

TitleTableSawBasics ==
    <<"T","a","b","l","e"," ","S","a","w"," ","B","a","s","i","c","s">>

TitleSAW == <<"S","A","W">>

TitlesGiven == {mTitles[k] : k \in 1..Len(mTitles)}

\* C11 (as stated): a product whose tag is "saw" is returned by the product
\* matcher for the video title "Table Saw Basics".
SawTagReturnedForTableSawBasics ==
    (MatcherAnswered /\ TitleTableSawBasics \in TitlesGiven) =>
        \A i \in DOMAIN productsTable :
            productsTable[i] = TagSaw => i \in ReturnedIds

\* C11 (amended): a product whose tag is "saw" is not returned for the video
\* title "Table Saw Basics" (the tags have to contain the title, and "saw"
\* does not contain "Table Saw Basics"); it is returned for a title its tag
\* contains in any letter case, such as "SAW".
SawTagReturnedOnlyForTitlesItContains ==
    MatcherAnswered =>
        \A i \in DOMAIN productsTable :
            productsTable[i] = TagSaw =>
                /\ TitlesGiven = {TitleTableSawBasics} => i \notin ReturnedIds
                /\ TitleSAW \in TitlesGiven => i \in ReturnedIds

\* C11 witness: the matcher answered for the title "Table Saw Basics" over a
\* catalog whose only product is tagged "saw", and returned nothing
SawTagNotReturnedForTableSawBasics ==
    /\ MatcherAnswered
    /\ mResult.impl = "route"
    /\ mTitles = <<TitleTableSawBasics>>
    /\ productsTable = <<TagSaw>>
    /\ mResult.products = <<>>

\* C12: the result of the product matcher never holds two products with the
\* same id, even when a product matches several titles, and the products
\* come in ascending order of their store id.
ProductsDistinctAndAscending ==
    mResult # NotCalled =>
        \A a, b \in 1..Len(mResult.products) :
            a < b => mResult.products[a].id < mResult.products[b].id

\* C13: when the list of video titles is empty, the product matcher returns
\* an empty list without taking a connection from the pool and without
\* issuing a query to the product store.
EmptyTitlesTouchNoStore ==
    (mTitles = <<>> /\ mResult # NotCalled) =>
        /\ mResult.products = <<>>
        /\ store.connects = 0
        /\ store.queries = 0
        /\ store.held = 0

\* C13 witness: the matcher of the route was called with no title over a
\* catalog that holds products
EmptyTitlesMatcherCalled ==
    /\ mTitles = <<>>
    /\ mResult.impl = "route"
    /\ Len(productsTable) >= 1

(***************************************************************************)
(* Claims about searchNeonDb, checked under SearchSpec.                    *)
(***************************************************************************)
SearchAnswered == sResult.queries = 1 /\ ~sResult.threw

\* the stored rows with a vector
EligibleDocs == {i \in 1..Len(docsTable) : docsTable[i].vector # NoVector}

\* the similarity of a stored row to the query vector, in hundredths
SimilarityOf(i) == 100 - CosineDistance(docsTable[i].vector, sQuery)

ReturnedDocIds == {sResult.value[k].id : k \in 1..Len(sResult.value)}

\* C14: search(vector, topK) returns exactly min(topK, n) documents, n being
\* the number of stored rows with a non-null embedding: rows with a null
\* embedding never appear, the results are in non-increasing order of
\* similarity, no returned document is less similar than an eligible one
\* left out, and nothing is padded when n < topK.
SearchReturnsTopKBySimilarity ==
    SearchAnswered =>
        LET docs == sResult.value
            n == Cardinality(EligibleDocs)
        IN  /\ Len(docs) = (IF sTopK < n THEN sTopK ELSE n)
            /\ Cardinality(ReturnedDocIds) = Len(docs)
            /\ ReturnedDocIds \subseteq {docsTable[i].id : i \in EligibleDocs}
            /\ \A k \in 1..Len(docs) :
                  docs[k].similarity_score = SimilarityOf(docs[k].id)
            /\ \A a, b \in 1..Len(docs) :
                  a < b => docs[a].similarity_score >= docs[b].similarity_score
            /\ \A k \in 1..Len(docs) :
                  \A i \in EligibleDocs :
                      docsTable[i].id \notin ReturnedDocIds =>
                          SimilarityOf(i) <= docs[k].similarity_score

\* C14 witness: a search with topK = 1 over a table holding a row without a
\* vector and two rows with one returned the nearer of the two alone
SearchLeftOutFartherRow ==
    /\ SearchAnswered
    /\ sTopK = 1
    /\ sQuery = <<3, 4>>
    /\ docsTable = << [id |-> 1, vector |-> <<1, 0>>],
                      [id |-> 2, vector |-> NoVector],
                      [id |-> 3, vector |-> <<4, 3>>] >>
    /\ sResult.value = << [id |-> 3, similarity_score |-> 96] >>

(***************************************************************************)
(* Claims about POST, checked under Spec.                                  *)
(***************************************************************************)
Finished == pc \in {"done", "failed"}

PipelineCalls ==
    calls.rewriteQuery + calls.embed + calls.searchNeonDb
        + calls.videoCompletion + calls.getRelatedProducts

NoMediaInResponse ==
    /\ DOMAIN response.videoReferences = {}
    /\ response.relatedProducts = <<>>

\* C1: for every request labelled GREETING, INAPPROPRIATE or NOT_RELEVANT,
\* whatever the conversation history, the response carries no video
\* reference and no related product: what is returned is the stream of the
\* canned answer (or the error response when that stream call fails).
ShortCircuitCarriesNoMedia ==
    relevanceResult \in {GREETING, INAPPROPRIATE, NOT_RELEVANT} =>
        /\ NoMediaInResponse
        /\ DOMAIN videoDict = {}
        /\ PipelineCalls = 0
        /\ store = NoStoreUse
        /\ Finished =>
              /\ response.kind = (IF "streamText" \in faults THEN "error"
                                  ELSE "stream")
              /\ calls.streamText = 1

\* C1 witness: a request with a history was labelled NOT_RELEVANT and its
\* canned answer was streamed
ShortCircuitStreamed ==
    /\ pc = "done"
    /\ relevanceResult = NOT_RELEVANT
    /\ Len(messages) >= 1
    /\ response.kind = "stream"

\* C2: a classifier answer that, trimmed and upper-cased, is none of
\* GREETING, RELEVANT, INAPPROPRIATE, NOT_RELEVANT is handled as NOT_RELEVANT:
\* the request takes the short-circuit path, and query rewriting, embedding,
\* vector search and product lookup never run for it.
UnrecognizedLabelNeverRetrieves ==
    ( /\ calls.checkRelevance = 1
      /\ "checkRelevance" \notin faults
      /\ classifierContent # NULL
      /\ toUpperCase(trim(classifierContent))
            \notin {GREETING, RELEVANT, INAPPROPRIATE, NOT_RELEVANT} )
    => /\ PipelineCalls = 0
       /\ store = NoStoreUse

FatalSteps == {"checkRelevance", "embed", "searchNeonDb", "videoCompletion"}

\* the calls that come after a step in the pipeline
StepsAfter(step) ==
    CASE step = "checkRelevance" ->
            {"streamText", "rewriteQuery", "embed", "searchNeonDb",
             "videoCompletion", "processVideoReferences", "getRelatedProducts"}
      [] step = "embed" ->
            {"searchNeonDb", "videoCompletion", "processVideoReferences",
             "getRelatedProducts"}
      [] step = "searchNeonDb" ->
            {"videoCompletion", "processVideoReferences", "getRelatedProducts"}
      [] step = "videoCompletion" ->
            {"processVideoReferences", "getRelatedProducts"}

SearchFailureAbortsAfterOneAttempt ==
    "searchNeonDb" \in faults =>
        /\ calls.searchNeonDb = 1
        /\ pc = "failed"
        /\ response.kind = "error"
        /\ response.message = "searchNeonDb"
        /\ calls.videoCompletion = 0
        /\ calls.getRelatedProducts = 0
        /\ store = NoStoreUse
        /\ NoMediaInResponse

\* C4 witness: the search failed for a request that got as far as searching
SearchFailureSeen ==
    /\ "searchNeonDb" \in faults
    /\ calls.embed = 1
    /\ pc = "failed"

\* C5: an error of the product store during product matching does not fail
\* the request: it completes with the JSON response, the video references
\* extracted from the generated text unchanged, and no related product.
ProductStoreErrorDegrades ==
    "getRelatedProducts" \in faults =>
        /\ pc = "done"
        /\ response.kind = "json"
        /\ response.status = 200
        /\ response.videoReferences = videoDict
        /\ Cardinality(DOMAIN response.videoReferences)
              = Cardinality(MMSSPositions(xTokens))
        /\ \A key \in DOMAIN response.videoReferences :
              \E i \in MMSSPositions(xTokens) :
                  response.videoReferences[key].video_title = xTokens[i + 1].val
        /\ response.relatedProducts = <<>>

\* C5 witness: the store failed on a table holding a matching product, and
\* the response still carries the extracted reference
ProductStoreErrorSeen ==
    /\ "getRelatedProducts" \in faults
    /\ pc = "done"
    /\ DOMAIN response.videoReferences = {<<"0">>}
    /\ response.videoReferences[<<"0">>].video_title
          = <<"T","a","b","l","e"," ","S","a","w">>
    /\ productsTable # <<>>

\* C15: the query rewriter never fails the request: when its model call
\* errors, the rewritten query is the original question unchanged, the
\* request is not failed by it, and the embedding step is the one that runs
\* next, with that question.
RewriteErrorFallsBackToQuestion ==
    "rewriteQuery" \in faults =>
        /\ rewrittenQuery = lastUserMessage
        /\ calls.rewriteQuery = 1
        /\ response.message # "rewriteQuery"
        /\ pc = "embed" \/ calls.embed = 1
        /\ pc = "embed" => calls.embed = 0 /\ response = NoResponse

\* C15 witness: the rewrite failed for the question "cut" and the request
\* went on through the embedding with it
RewriteErrorThenEmbedded ==
    /\ "rewriteQuery" \in faults
    /\ lastUserMessage = <<"c","u","t">>
    /\ rewrittenQuery = <<"c","u","t">>
    /\ calls.embed = 1
    /\ pc = "searchNeonDb"

\* C16: the rewritten query handed to the embedding step is never null and
\* never empty, whatever the question (an empty one, or a request without a
\* user message, included) and whatever the rewriter's model call gave
\* (text, an empty answer, an error).
EmbeddedQueryNeverEmpty ==
    calls.embed >= 1 => rewrittenQuery # NULL /\ rewrittenQuery # <<>>

\* C17: for an empty question the classifier does not throw and the request
\* is treated as NOT_RELEVANT by default: once the classification call has
\* answered, the request is on the short-circuit path and no retrieval step
\* (rewrite, embedding, search, generation, product lookup) runs for it.
EmptyQuestionNeverRetrieves ==
    ( /\ lastUserMessage = <<>>
      /\ calls.checkRelevance = 1
      /\ "checkRelevance" \notin faults )
    => /\ PipelineCalls = 0
       /\ store = NoStoreUse

ModelCalls == {"checkRelevance", "rewriteQuery", "videoCompletion"}

\* h is made of the last Len(h) entries of the conversation, in their order
IsMostRecent(h, msgs) ==
    /\ Len(h) <= Len(msgs)
    /\ \A k \in 1..Len(h) : h[k] = msgs[Len(msgs) - Len(h) + k]

\* C18: every model call that carries the conversation history (the
\* classification, the query rewriting, the video completion) carries at most
\* the 5 most recent entries of it, in their original order with the most
\* recent last, however long the history is.
ModelCallsCarryRecentWindow ==
    \A call \in ModelCalls :
        prompts[call].sent =>
            /\ Len(prompts[call].history) <= 5
            /\ IsMostRecent(prompts[call].history, messages)

\* the steps of a request that goes through retrieval, in the order of POST
PipelineOrder ==
    <<"checkRelevance", "rewriteQuery", "embed", "searchNeonDb",
      "videoCompletion", "processVideoReferences", "getRelatedProducts">>

\* the number of steps of PipelineOrder that have been started
StepsStarted ==
    Cardinality({k \in 1..Len(PipelineOrder) : calls[PipelineOrder[k]] >= 1})

\* C19: within one RELEVANT request the steps run in the fixed order
\* classify, rewrite, embed, search, generate, extract media, match products,
\* done: at every moment the steps started so far are the first ones of that
\* order, each started once, the step the handler is at is the next one,
\* and the request is done only when all of them have run.
StepsRunInPipelineOrder ==
    relevanceResult = RELEVANT =>
        /\ calls.streamText = 0
        /\ \A k \in 1..Len(PipelineOrder) :
              calls[PipelineOrder[k]] = (IF k <= StepsStarted THEN 1 ELSE 0)
        /\ \A k \in 1..Len(PipelineOrder) :
              pc = PipelineOrder[k] => StepsStarted = k - 1
        /\ pc \in {PipelineOrder[k] : k \in 1..Len(PipelineOrder)}
                    \cup {"done", "failed"}
        /\ pc = "done" =>
              /\ StepsStarted = Len(PipelineOrder)
              /\ response.kind = "json"
        /\ calls.embed = 1 => rewrittenQuery # NULL
        /\ calls.getRelatedProducts = 1 => response.videoReferences = videoDict

\* C19 witness: a RELEVANT request ran every step once and is done
RelevantRequestDone ==
    /\ relevanceResult = RELEVANT
    /\ pc = "done"
    /\ \A k \in 1..Len(PipelineOrder) : calls[PipelineOrder[k]] = 1
    /\ DOMAIN response.videoReferences # {}
    /\ response.relatedProducts # <<>>

\* C20: the video references of the final response are exactly the
\* well-formed tag triples of the answer text that was streamed to the caller
\* (the text the caller posts once the stream is complete), one per triple
\* in order of appearance, and the related products are the ones matched
\* from the titles of exactly those references.
ResponseMatchesStreamedAnswer ==
    (pc = "done" /\ response.kind = "json" /\ request.hasAnswer) =>
        LET pos == MMSSPositions(request.answer)
            n == Cardinality(pos)
            refs == response.videoReferences
        IN  /\ DOMAIN refs = {OrdinalKey(k) : k \in 0..(n - 1)}
            /\ \A k \in 0..(n - 1) :
                  LET i == NthOf(pos, k + 1)
                  IN  /\ refs[OrdinalKey(k)].timestamp = request.answer[i].val
                      /\ refs[OrdinalKey(k)].video_title = request.answer[i + 1].val
            /\ "getRelatedProducts" \notin faults =>
                  response.relatedProducts
                      = getRelatedProducts(TitlesOf(refs), productsTable, "ok")

\* C21: the generation step signals two distinguishable failures: a
\* completion that comes back without any content fails the request with a
\* no-response error, a completion cut off before its natural end
\* (finish_reason "length") fails it with a cut-off error, and neither ends
\* in a successful response.
GenerationFailuresSignalled ==
    (Finished /\ videoResponse.received) =>
        /\ ~videoResponse.hasContent =>
              /\ pc = "failed"
              /\ response.kind = "error"
              /\ response.message = "LLMNoResponseError"
        /\ (videoResponse.hasContent /\ videoResponse.finish_reason = "length") =>
              /\ pc = "failed"
              /\ response.kind = "error"
              /\ response.message = "LLMResponseCutOff"

\* C22: on the short-circuit path exactly one model call follows the
\* classification and nothing else happens for the request: no query
\* rewrite, no embedding, no vector search, no video completion, no
\* reference extraction and no use of the product store.
ShortCircuitIssuesOneModelCall ==
    relevanceResult \in {GREETING, INAPPROPRIATE, NOT_RELEVANT} =>
        /\ calls = [NoCalls EXCEPT
                       !.checkRelevance = 1,
                       !.streamText = IF pc = "streamText" THEN 0 ELSE 1]
        /\ pc \in {"streamText", "done", "failed"}
        /\ store = NoStoreUse
        /\ prompts.rewriteQuery = NotSent
        /\ prompts.videoCompletion = NotSent
        /\ ~videoResponse.received

InappropriateAnswerStreamed ==
    /\ relevanceResult = INAPPROPRIATE
    /\ pc = "done"
    /\ response = StreamResponse
    /\ calls.streamText = 1

\* C25: every request eventually reaches exactly one terminal outcome
\* (the canned stream returned, the JSON result returned, or the failure
\* response returned), given that every external call eventually returns,
\* fails or times out: it has a response exactly when it is in a terminal
\* state, once it has one nothing changes any more, and it does not stay
\* in a non-terminal state forever.
RequestReachesOneOutcome ==
    /\ <>Finished
    /\ [](Finished <=> response # NoResponse)
    /\ [](Finished => response.kind = (IF pc = "failed" THEN "error"
                                       ELSE IF relevanceResult \in ShortCircuitLabels
                                            THEN "stream" ELSE "json"))
    /\ [][Finished => UNCHANGED vars]_vars

RequestEndedWithJsonResult ==
    /\ Finished
    /\ response.kind = "json"
    /\ calls.getRelatedProducts = 1

\* C26: every connection a request takes from the pool is given back by
\* the time the request completes, on the success path and on every error
\* path: a finished request holds no connection.
FinishedRequestHoldsNoConnection ==
    Finished => store.held = 0

RECURSIVE Replay(_, _, _)
\* POST run alone on a request, given the answers to its calls in order
Replay(local, answers, table) ==
    IF answers = <<>> THEN local
    ELSE Replay(PostStep(local, Head(answers), table), Tail(answers), table)

FailureResponseUniform ==
    \A id \in DOMAIN invocations : \A other \in DOMAIN invocations :
        (invocations[id].pc = "failed" /\ invocations[other].pc = "failed")
            => invocations[id].response = invocations[other].response

\* C27: the chat page never has two questions in flight: whatever the
\* sequence of submits, Enter presses and clicks on suggested questions
\* (with their submit delayed by 100 ms), a question is appended only while
\* no earlier one is loading, at most one answer is streaming at a time,
\* and a blank question is never appended.
OneQuestionInFlight ==
    /\ \A k \in DOMAIN exchanges :
          /\ ~exchanges[k].whileLoading
          /\ trim(exchanges[k].question) # <<>>
    /\ Cardinality({k \in DOMAIN exchanges : exchanges[k].state = "streaming"}) <= 1

\* the conversations onFinish recorded for a session, in the order recorded
RecordedFor(id) ==
    LET mine == SelectSeq(recorded, LAMBDA r : r.session = id)
    IN  [n \in 1..Len(mine) |-> mine[n].conversation]

\* C28: the conversation history of a session is append-only: the
\* conversations of every session of the page are exactly the exchanges
\* recorded for it, in the order they were recorded, each once, none lost,
\* replaced or reordered.
HistoryAppendOnly ==
    \A i \in 1..Len(sessions) :
        sessions[i].conversations = RecordedFor(sessions[i].id)

\* C29: recording a finished answer changes the current session only: when
\* onFinish has appended the conversation and saved it, every other session
\* of the page's list is still in the list with its conversations as before.
RecordingKeepsOtherSessions ==
    [][\A k \in DOMAIN exchanges :
          (exchanges[k].state \in {"links", "saving"}
              /\ exchanges'[k].state = "recorded")
          => \A i \in 1..Len(sessions) :
                sessions[i].id # exchanges[k].closure.currentSessionId
                => \E j \in 1..Len(sessions') : sessions'[j] = sessions[i]]_vars

\* C30: the save of the session hook is debounced: a save is issued only
\* for a value of sessions that stayed the current one for the full 1000 ms
\* delay, at most once for it; the pending save of a value that was
\* superseded is cancelled and never sent; an empty list is never saved.
SaveIsDebounced ==
    /\ \A n \in DOMAIN saves :
          /\ saves[n].current
          /\ saves[n].at - saves[n].setAt >= SaveDelay
          /\ saves[n].value # <<>>
          /\ \A m \in DOMAIN saves : saves[m].version = saves[n].version => m = n
    /\ \A t \in timeouts : t.id = sessionsVersion /\ t.value = sessions
    /\ sessions = <<>> => timeouts = {}

ThirdValueSavedAfterDelay ==
    /\ sessionsVersion = 3
    /\ Len(saves) = 1
    /\ saves[1].version = 3
    /\ saves[1].setAt > 0

====
